---------------------------- MODULE Spec2Model ----------------------------
(***************************************************************************)
(* Model of spreadsheets-utilities: the in-memory session store            *)
(* (src/src/lib/session.ts) and the match/merge engine                     *)
(* (src/src/lib/duplicate-checker.ts).                                     *)
(*                                                                         *)
(* Spec        the session store: create / get / update / delete, the     *)
(*             per-session expiry timers, the periodic sweep and a clock.  *)
(* SpecEngine  the pure match/merge functions and the result validator     *)
(*             (src/src/lib/result-processor.ts) applied to drawn inputs.  *)
(* SpecRoutes  the request handlers of src/src/app/api and of the upload   *)
(*             route on top of the session store, with the timers, the     *)
(*             sweep and the clock running between their turns.            *)
(***************************************************************************)
EXTENDS Integers, Sequences, FiniteSets, TLC

VARIABLES
    now,              \* the wall clock (new Date()), in ticks
    sessions,         \* Map<string, UserSession>: id -> session
    timers,           \* pending setTimeout callbacks: a set of handles
    cleanupTimeouts,  \* Map<string, Timeout>: id -> handle
    nextId,           \* next identifier uuidv4() hands out
    stale,            \* history: pending timers armed before the last update
    ev,               \* history: the operation just performed and its result
    rem,              \* history: the sessions that operation removed
    pc,               \* engine: which function is applied to the drawn input
    file1,            \* engine: FileData of the first upload
    file2,            \* engine: FileData of the second upload
    columnMapping,    \* engine: ColumnMapping
    mergeOptions,     \* engine: MergeOptions.operations
    results,          \* engine: ProcessedData returned by processDuplicates
    matched,          \* history: what findDuplicatesAndUnique returned there
    opIn,             \* engine: operands of applyMergeOperation
    opOut,            \* engine: value returned by applyMergeOperation
    req,              \* routes: the requests suspended at an await
    resp,             \* routes: the response the last step sent, if any
    downloaded        \* history: ids whose download has succeeded

storeVars == <<now, sessions, timers, cleanupTimeouts, nextId, stale, ev, rem>>
engineVars == <<pc, file1, file2, columnMapping, mergeOptions, results,
                matched, opIn, opOut>>
routeVars == <<req, resp, downloaded>>
vars == <<now, sessions, timers, cleanupTimeouts, nextId, stale, ev, rem,
          pc, file1, file2, columnMapping, mergeOptions, results, matched,
          opIn, opOut, req, resp, downloaded>>

----------------------------------------------------------------------------
(* Bounds of the model *)

MaxTime == 6
MaxColumns == 2
MaxSessions == 2
MaxSkew == 1
MaxRows == 2
MaxRouteSessions == 1
MaxInFlight == 2
MaxRouteInFlight == 1
MaxLiveSessions == 1

----------------------------------------------------------------------------
(* Time.  One tick of the model clock is one sweep period (5 minutes), so  *)
(* the 15-minute timeout is 3 ticks.                                       *)

SessionTimeoutMs == 15 * 60 * 1000
SweepIntervalMs == 5 * 60 * 1000
TickMs == SweepIntervalMs
SESSION_TIMEOUT == SessionTimeoutMs \div TickMs
SWEEP_INTERVAL == SweepIntervalMs \div TickMs

SessionIds == 1..MaxSessions

(* A caller-supplied updates.lastActivity: the caller's own reading of the  *)
(* clock (the same tick) or a Date up to MaxSkew ticks ahead of it.        *)
SuppliedTimes(t) == t..(t + MaxSkew)

----------------------------------------------------------------------------
(* Map helpers *)

MapRemove(m, k) == [x \in DOMAIN m \ {k} |-> m[x]]
MapSet(m, k, v) == [x \in DOMAIN m \cup {k} |-> IF x = k THEN v ELSE m[x]]

(* The store as one value, so that a handler's nested calls compose. *)
Store(s, t, c) == [s |-> s, t |-> t, c |-> c]

(* setTimeout(callback, SESSION_TIMEOUT) returns a handle distinct from     *)
(* every pending one.  A handle records the session its callback closes    *)
(* over and the time it comes due; n tells equal pending timers apart.     *)
SetTimeout(t, sid, due) ==
    [sid |-> sid, due |-> due,
     n |-> CHOOSE k \in 1..(Cardinality(t) + 1) :
              /\ [sid |-> sid, due |-> due, n |-> k] \notin t
              /\ \A j \in 1..(k - 1) : [sid |-> sid, due |-> due, n |-> j] \in t]

(* clearTimeout(h): no effect when h has fired or was cleared already. *)
ClearTimeout(t, h) == t \ {h}

IdleTime(s, t) == t - s.lastActivity

----------------------------------------------------------------------------
(* session.ts *)

(* getSession line 51: timeSinceLastActivity > SESSION_TIMEOUT *)
GetExpiredMutant(idle) == idle >= SESSION_TIMEOUT
GetExpired(idle) == idle > SESSION_TIMEOUT

(* timer callback line 148: timeSinceLastActivity >= SESSION_TIMEOUT *)
TimerExpiredMutant(idle) == idle < SESSION_TIMEOUT
TimerExpired(idle) == idle >= SESSION_TIMEOUT

(* cleanupExpiredSessions line 187: timeSinceLastActivity > SESSION_TIMEOUT *)
SweepExpired(idle) == idle > SESSION_TIMEOUT

(* scheduleSessionCleanup, lines 131-174: clear the tracked timer, arm a    *)
(* new one SESSION_TIMEOUT from now and track it.                          *)
ScheduleSessionCleanup(st, sid, t) ==
    LET t1 == IF sid \in DOMAIN st.c THEN ClearTimeout(st.t, st.c[sid])
              ELSE st.t
        h == SetTimeout(t1, sid, t + SESSION_TIMEOUT)
    IN Store(st.s, t1 \cup {h}, MapSet(st.c, sid, h))

(* A delete that cancels the timer and leaves the session in the map *)
DeleteSessionKeepsMutant(st, sid) ==
    IF sid \in DOMAIN st.s
    THEN Store(st.s,
               IF sid \in DOMAIN st.c THEN ClearTimeout(st.t, st.c[sid])
               ELSE st.t,
               MapRemove(st.c, sid))
    ELSE st

(* A delete that clears the whole store *)
DeleteSessionMutant(st, sid) ==
    IF sid \in DOMAIN st.s THEN Store(<<>>, {}, <<>>) ELSE st

(* deleteSession, lines 105-126 *)
DeleteSession(st, sid) ==
    IF sid \in DOMAIN st.s
    THEN Store(MapRemove(st.s, sid),
               IF sid \in DOMAIN st.c THEN ClearTimeout(st.t, st.c[sid])
               ELSE st.t,
               MapRemove(st.c, sid))
    ELSE st

(* The body of the setTimeout callback, lines 140-168, run with the fired   *)
(* timer already off the pending list.                                     *)
TimerCallback(st, sid, t) ==
    LET st1 == IF sid \in DOMAIN st.s
               THEN IF TimerExpired(IdleTime(st.s[sid], t))
                    THEN DeleteSession(st, sid)
                    ELSE ScheduleSessionCleanup(st, sid, t)
               ELSE st
    IN Store(st1.s, st1.t, MapRemove(st1.c, sid))

Cur == Store(sessions, timers, cleanupTimeouts)

Event(op, sid, ret, idle, stored, old) ==
    [op |-> op, sid |-> sid, ret |-> ret, idle |-> idle, stored |-> stored,
     old |-> old]

SetStore(st) ==
    /\ sessions' = st.s
    /\ timers' = st.t
    /\ cleanupTimeouts' = st.c

(* The UserSession createSession builds, lines 19-25: no files, and no     *)
(* columnMapping, mergeOptions or results key.  files maps the keys of     *)
(* session.files that hold a file to their FileData; id and createdAt are  *)
(* left out.                                                               *)
NewSession(t) == [lastActivity |-> t, files |-> <<>>]

(* createSession, lines 16-34 *)
CreateSession ==
    /\ nextId <= MaxSessions
    /\ LET sid == nextId
           st1 == Store(MapSet(sessions, sid, NewSession(now)),
                        timers, cleanupTimeouts)
           st2 == ScheduleSessionCleanup(st1, sid, now)
       IN /\ SetStore(st2)
          /\ stale' = stale \cap st2.t
          /\ nextId' = nextId + 1
          /\ ev' = Event("create", sid, "found", 0, FALSE, FALSE)
    /\ rem' = {}
    /\ UNCHANGED now

(* getSession, lines 39-69 *)
GetSession(sid) ==
    /\ IF sid \notin DOMAIN sessions
       THEN /\ ev' = Event("get", sid, "notfound", 0, FALSE, FALSE)
            /\ rem' = {}
            /\ UNCHANGED <<sessions, timers, cleanupTimeouts, stale>>
       ELSE LET idle == IdleTime(sessions[sid], now)
            IN IF GetExpired(idle)
               THEN LET st1 == DeleteSession(Cur, sid)
                    IN /\ SetStore(st1)
                       /\ stale' = stale \cap st1.t
                       /\ ev' = Event("get", sid, "notfound", idle, TRUE, FALSE)
                       /\ rem' = {[sid |-> sid, by |-> "get", idle |-> idle]}
               ELSE LET st1 == ScheduleSessionCleanup(
                                 Store(MapSet(sessions, sid,
                                     [sessions[sid] EXCEPT !.lastActivity = now]),
                                     timers, cleanupTimeouts), sid, now)
                    IN /\ SetStore(st1)
                       /\ stale' = stale \cap st1.t
                       /\ ev' = Event("get", sid, "found", idle, TRUE, FALSE)
                       /\ rem' = {}
    /\ UNCHANGED <<now, nextId>>

(* updateSession, lines 74-100.  given = FALSE: updates carries no          *)
(* lastActivity and the clock is used.                                     *)
UpdateSession(sid, given, la) ==
    /\ IF sid \notin DOMAIN sessions
       THEN /\ ev' = Event("update", sid, "false", 0, FALSE, FALSE)
            /\ UNCHANGED <<sessions, timers, cleanupTimeouts, stale>>
       ELSE LET st1 == ScheduleSessionCleanup(
                         Store(MapSet(sessions, sid,
                             [sessions[sid] EXCEPT
                                 !.lastActivity = IF given THEN la ELSE now]),
                             timers, cleanupTimeouts), sid, now)
            IN /\ SetStore(st1)
               /\ stale' = (stale \cap st1.t) \cup
                           {h \in st1.t : h.sid = sid /\ h # st1.c[sid]}
               /\ ev' = Event("update", sid, "true", 0, TRUE, FALSE)
    /\ rem' = {}
    /\ UNCHANGED <<now, nextId>>

(* deleteSession called by a request, lines 105-126 *)
Delete(sid) ==
    /\ LET st1 == DeleteSession(Cur, sid)
       IN /\ SetStore(st1)
          /\ stale' = stale \cap st1.t
    /\ ev' = Event("delete", sid,
                   IF sid \in DOMAIN sessions THEN "true" ELSE "false",
                   0, sid \in DOMAIN sessions, FALSE)
    /\ rem' = IF sid \in DOMAIN sessions
              THEN {[sid |-> sid, by |-> "delete", idle |-> 0]}
              ELSE {}
    /\ UNCHANGED <<now, nextId>>

(* A pending timer comes due (never early, possibly late) and its          *)
(* callback runs, lines 140-168.                                           *)
TimerFire(h) ==
    /\ h \in timers
    /\ now >= h.due
    /\ LET sid == h.sid
           st0 == Store(sessions, timers \ {h}, cleanupTimeouts)
           st1 == TimerCallback(st0, sid, now)
           stored == sid \in DOMAIN sessions
           idle == IF stored THEN IdleTime(sessions[sid], now) ELSE 0
       IN /\ SetStore(st1)
          /\ stale' = stale \cap st1.t
          /\ ev' = Event("timer", sid,
                         IF sid \in DOMAIN st1.s THEN "kept" ELSE "gone",
                         idle, stored, h \in stale)
          /\ rem' = IF stored /\ sid \notin DOMAIN st1.s
                    THEN {[sid |-> sid, by |-> "timer", idle |-> idle]}
                    ELSE {}
    /\ UNCHANGED <<now, nextId>>

(* cleanupExpiredSessions, lines 179-197: one pass over the map with the   *)
(* clock read once.                                                        *)
RECURSIVE SweepAll(_, _, _)
SweepAll(st, ids, t) ==
    IF ids = {} THEN st
    ELSE LET sid == CHOOSE x \in ids : \A y \in ids : x <= y
             st1 == IF SweepExpired(IdleTime(st.s[sid], t))
                    THEN DeleteSession(st, sid) ELSE st
         IN SweepAll(st1, ids \ {sid}, t)

(* The setInterval callback, lines 229-235: it runs once a sweep period,   *)
(* that is at any tick after the first period.                             *)
CleanupExpiredSessions ==
    /\ now >= SWEEP_INTERVAL
    /\ LET st1 == SweepAll(Cur, DOMAIN sessions, now)
       IN /\ SetStore(st1)
          /\ stale' = stale \cap st1.t
          /\ rem' = {[sid |-> sid, by |-> "sweep",
                      idle |-> IdleTime(sessions[sid], now)] :
                     sid \in DOMAIN sessions \ DOMAIN st1.s}
          /\ ev' = Event("sweep", 0, "none", 0, FALSE, FALSE)
    /\ UNCHANGED <<now, nextId>>

(* The clock advances. *)
Tick ==
    /\ now < MaxTime
    /\ now' = now + 1
    /\ ev' = Event("tick", 0, "none", 0, FALSE, FALSE)
    /\ rem' = {}
    /\ UNCHANGED <<sessions, timers, cleanupTimeouts, nextId, stale>>

----------------------------------------------------------------------------
(* The request handlers.  A handler runs to its first await or to its      *)
(* response in one step; only the upload (file parsing) and the Excel      *)
(* download (workbook writing) suspend after they have read the session,   *)
(* and several requests can be suspended at once.  Requests are well       *)
(* formed: the 400 answers to a missing sessionId, file key, export type   *)
(* or format are left out.                                                 *)

NoResponse == [kind |-> "none"]

FileKeys == {"file1", "file2"}

(* A FileData as a session holds it: the number of its records. *)
FileDataOf(rowCount) == [rowCount |-> rowCount]

SampleRowCounts == 1..MaxRows

(* The columnMapping and mergeOptions of the body of a process request *)
SampleBodies ==
    {[columnMapping |-> [file1Column |-> "k", file2Column |-> "k"],
      mergeOptions |-> <<[column |-> "ALL_COLUMNS", operation |-> "MERGE_ALL"]>>],
     [columnMapping |-> [file1Column |-> "k", file2Column |-> "v"],
      mergeOptions |-> <<[column |-> "v", operation |-> "SUM"]>>]}

(* The ProcessedData of a process request as a session holds it: the two   *)
(* totals of its stats (calculateStatistics, duplicate-checker.ts lines    *)
(* 315-334) and, as history, the body it was computed for.                 *)
ResultsOf(files, body) ==
    [stats |-> [totalFile1 |-> files["file1"].rowCount,
                totalFile2 |-> files["file2"].rowCount],
     body |-> body]

(* A suspended upload; met is history: the file keys that other uploads of *)
(* the same session have attached while this one was suspended.            *)
UploadPending(sid, fileKey) ==
    [kind |-> "upload", sid |-> sid, fileKey |-> fileKey, met |-> {}]

DownloadPending(sid) == [kind |-> "download", sid |-> sid]

(* At most MaxInFlight requests are suspended at once, no two of them of   *)
(* the same kind for the same session and file key.                        *)
CanSuspend(pending, kind, sid, fileKey) ==
    /\ Cardinality(pending) < MaxInFlight
    /\ \A o \in pending :
          ~(o.kind = kind /\ o.sid = sid
              /\ (kind = "upload" => o.fileKey = fileKey))

(* NextResponse.json(..., {status}): cause names the branch that answered, *)
(* gone records that a store call of the handler found the session         *)
(* missing, stored whether the session was in the store when the step      *)
(* began.                                                                  *)
Response(kind, sid, status, cause, gone, stored) ==
    [kind |-> kind, sid |-> sid, status |-> status, cause |-> cause,
     gone |-> gone, stored |-> stored]

(* getSession, lines 39-69, as a function of the store *)
GetSessionResult(st, sid, t) ==
    IF sid \notin DOMAIN st.s THEN [st |-> st, found |-> FALSE]
    ELSE IF GetExpired(IdleTime(st.s[sid], t))
    THEN [st |-> DeleteSession(st, sid), found |-> FALSE]
    ELSE [st |-> ScheduleSessionCleanup(
                     Store(MapSet(st.s, sid,
                               [st.s[sid] EXCEPT !.lastActivity = t]),
                           st.t, st.c), sid, t),
          found |-> TRUE]

(* updateSession, lines 74-100, as a function of the store; updates is a   *)
(* record of the fields to overwrite, lastActivity among them or not.      *)
UpdateSessionResult(st, sid, t, updates) ==
    IF sid \notin DOMAIN st.s THEN [st |-> st, ok |-> FALSE]
    ELSE LET la == IF "lastActivity" \in DOMAIN updates
                   THEN updates.lastActivity ELSE t
             updated == [lastActivity |-> la] @@ updates @@ st.s[sid]
         IN [st |-> ScheduleSessionCleanup(
                        Store(MapSet(st.s, sid, updated), st.t, st.c), sid, t),
             ok |-> TRUE]

(* An addFileToSession that leaves out "...session.files" *)
AddFileToSessionMutant(st, sid, fileKey, fileData, t) ==
    LET g == GetSessionResult(st, sid, t)
    IN IF ~g.found THEN [st |-> g.st, ok |-> FALSE]
       ELSE UpdateSessionResult(g.st, sid, t, [files |-> (fileKey :> fileData)])

(* addFileToSession, data-validator.ts lines 247-266 *)
AddFileToSession(st, sid, fileKey, fileData, t) ==
    LET g == GetSessionResult(st, sid, t)
    IN IF ~g.found THEN [st |-> g.st, ok |-> FALSE]
       ELSE UpdateSessionResult(g.st, sid, t,
                [files |-> (fileKey :> fileData) @@ g.st.s[sid].files])

(* The remaining time in whole minutes of a session idle for idle ticks,   *)
(* data-validator.ts lines 286-291                                         *)
RemainingMinutes(idle) ==
    LET remainingMs == SessionTimeoutMs - idle * TickMs
        minutes == remainingMs \div (60 * 1000)
    IN IF minutes > 0 THEN minutes ELSE 0

(* getRemainingTime, data-validator.ts lines 279-292 *)
GetRemainingTime(st, sid, t) ==
    LET g == GetSessionResult(st, sid, t)
    IN IF ~g.found THEN [st |-> g.st, minutes |-> 0]
       ELSE [st |-> g.st,
             minutes |-> RemainingMinutes(IdleTime(g.st.s[sid], t))]

(* needsExpirationWarning, data-validator.ts lines 297-300 *)
NeedsExpirationWarning(st, sid, t) ==
    LET r == GetRemainingTime(st, sid, t)
    IN [st |-> r.st, warning |-> r.minutes <= 5 /\ r.minutes > 0]

(* What a call that goes through getSession leaves in the history of the   *)
(* store.                                                                  *)
ThroughGetSession(st, sid, idle) ==
    /\ SetStore(st)
    /\ stale' = stale \cap st.t
    /\ rem' = IF sid \in DOMAIN sessions /\ sid \notin DOMAIN st.s
              THEN {[sid |-> sid, by |-> "get", idle |-> idle]}
              ELSE {}
    /\ UNCHANGED <<now, nextId>>

(* A call of getRemainingTime(sid); the event records the minutes returned *)
(* and the idle time the session had when the call was made.               *)
RemainingTime(sid) ==
    LET r == GetRemainingTime(Cur, sid, now)
        stored == sid \in DOMAIN sessions
        idle == IF stored THEN IdleTime(sessions[sid], now) ELSE 0
    IN /\ ThroughGetSession(r.st, sid, idle)
       /\ ev' = [minutes |-> r.minutes]
                   @@ Event("remaining", sid, "none", idle, stored, FALSE)

(* A call of needsExpirationWarning(sid) *)
ExpirationWarning(sid) ==
    LET w == NeedsExpirationWarning(Cur, sid, now)
        stored == sid \in DOMAIN sessions
        idle == IF stored THEN IdleTime(sessions[sid], now) ELSE 0
    IN /\ ThroughGetSession(w.st, sid, idle)
       /\ ev' = [warning |-> w.warning]
                   @@ Event("warning", sid, "none", idle, stored, FALSE)

(* download route line 101: deleteSession(sessionId) *)
CleanUpAfterDownloadMutant(st, sid) == st
CleanUpAfterDownload(st, sid) == DeleteSession(st, sid)

(* What a handler's step leaves behind in the store and its history;      *)
(* updated holds the ids updateSession has written.                        *)
Commit(st, updated) ==
    /\ SetStore(st)
    /\ stale' = (stale \cap st.t) \cup
                {h \in st.t : h.sid \in updated /\ h # st.c[h.sid]}
    /\ ev' = Event("request", 0, "none", 0, FALSE, FALSE)
    /\ rem' = {}
    /\ UNCHANGED now

(* POST /api/session {action: "create"}, session route lines 15-24 *)
SessionCreate ==
    /\ CreateSession
    /\ resp' = Response("create", nextId, 200, "ok", FALSE, FALSE)
    /\ UNCHANGED <<req, downloaded>>

(* DELETE /api/session, session route lines 135-167 *)
SessionDelete(sid) ==
    /\ Delete(sid)
    /\ resp' = IF sid \in DOMAIN sessions
               THEN Response("delete", sid, 200, "ok", FALSE, TRUE)
               ELSE Response("delete", sid, 404, "session", TRUE, FALSE)
    /\ UNCHANGED <<req, downloaded>>

(* GET /api/session, session route lines 63-133: getSession, then          *)
(* getRemainingTime and needsExpirationWarning, which call it again.       *)
SessionStatus(sid) ==
    LET g == GetSessionResult(Cur, sid, now)
        r == GetRemainingTime(g.st, sid, now)
        w == NeedsExpirationWarning(r.st, sid, now)
        stored == sid \in DOMAIN sessions
    IN /\ Commit(IF g.found THEN w.st ELSE g.st, {})
       /\ resp' = IF g.found
                  THEN [remainingMinutes |-> r.minutes,
                        needsExpirationWarning |-> w.warning]
                       @@ Response("status", sid, 200, "ok", FALSE, stored)
                  ELSE Response("status", sid, 404, "session", TRUE, stored)
       /\ UNCHANGED <<nextId, req, downloaded>>

(* GET /api/file-data, file-data route lines 4-75 *)
FileDataRequest(sid, fileKey) ==
    LET g == GetSessionResult(Cur, sid, now)
        stored == sid \in DOMAIN sessions
    IN /\ Commit(g.st, {})
       /\ resp' = IF ~g.found
                  THEN Response("file-data", sid, 404, "session", TRUE, stored)
                  ELSE IF fileKey \notin DOMAIN g.st.s[sid].files
                  THEN Response("file-data", sid, 404, "nofile", FALSE, stored)
                  ELSE Response("file-data", sid, 200, "ok", FALSE, stored)
       /\ UNCHANGED <<nextId, req, downloaded>>

(* What the body of a process request leads to once the session is found   *)
(* with both files: a column the files lack (400), processDuplicates       *)
(* throwing (500), validateResults returning invalid (500), or results.    *)
ProcessOutcomes == {"ok", "input", "throws", "invalid"}

(* A process request that saves whatever processDuplicates returned *)
ProcessSavesMutant(found, files, outcome) ==
    found /\ DOMAIN files = FileKeys /\ outcome \in {"ok", "invalid"}

(* Whether a process request reaches updateSession (line 150): the session *)
(* is found with both files and lines 66-146 have not returned.            *)
ProcessSaves(found, files, outcome) ==
    found /\ DOMAIN files = FileKeys /\ outcome = "ok"

(* POST /api/process, process route lines 7-191: no await between          *)
(* getSession and updateSession.                                           *)
ProcessRequest(sid, body, outcome) ==
    LET g == GetSessionResult(Cur, sid, now)
        files == IF g.found THEN g.st.s[sid].files ELSE <<>>
        saved == ProcessSaves(g.found, files, outcome)
        u == IF saved
             THEN UpdateSessionResult(g.st, sid, now,
                      [columnMapping |-> body.columnMapping,
                       mergeOptions |-> body.mergeOptions,
                       results |-> ResultsOf(files, body),
                       lastActivity |-> now])
             ELSE [st |-> g.st, ok |-> FALSE]
        stored == sid \in DOMAIN sessions
    IN /\ Commit(u.st, IF u.ok THEN {sid} ELSE {})
       /\ resp' = (IF ~g.found
                   THEN Response("process", sid, 404, "session", TRUE, stored)
                   ELSE IF DOMAIN files # FileKeys \/ outcome = "input"
                   THEN Response("process", sid, 400, "input", FALSE, stored)
                   ELSE IF outcome = "throws"
                   THEN Response("process", sid, 500, "processing", FALSE, stored)
                   ELSE IF outcome = "invalid"
                   THEN Response("process", sid, 500, "validation", FALSE, stored)
                   ELSE IF ~u.ok
                   THEN Response("process", sid, 500, "save", TRUE, stored)
                   ELSE Response("process", sid, 200, "ok", FALSE, stored))
       /\ UNCHANGED <<nextId, req, downloaded>>

(* POST /api/download, download route lines 6-128, up to the response or   *)
(* to "await exportToExcel(data)" (line 78).  empty: the chosen export     *)
(* type has no rows; fails: exportToCSV throws.                            *)
DownloadRequest(sid, format, empty, fails) ==
    /\ format = "excel" => CanSuspend(req, "download", sid, "")
    /\ LET g == GetSessionResult(Cur, sid, now)
           stored == sid \in DOMAIN sessions
           early == ~g.found \/ "results" \notin DOMAIN g.st.s[sid] \/ empty
           done == ~early /\ format = "csv" /\ ~fails
       IN /\ Commit(IF done THEN CleanUpAfterDownload(g.st, sid) ELSE g.st, {})
          /\ resp' = IF ~g.found
                     THEN Response("download", sid, 404, "session", TRUE, stored)
                     ELSE IF "results" \notin DOMAIN g.st.s[sid]
                     THEN Response("download", sid, 400, "noresults", FALSE, stored)
                     ELSE IF empty
                     THEN Response("download", sid, 400, "nodata", FALSE, stored)
                     ELSE IF format = "excel" THEN NoResponse
                     ELSE IF fails
                     THEN Response("download", sid, 500, "export", FALSE, stored)
                     ELSE Response("download", sid, 200, "ok", FALSE, stored)
          /\ req' = IF ~early /\ format = "excel"
                    THEN req \cup {DownloadPending(sid)}
                    ELSE req
          /\ downloaded' = IF done THEN downloaded \cup {sid} ELSE downloaded
    /\ UNCHANGED nextId

(* The Excel download r resumed, lines 78-106; fails: exportToExcel threw. *)
DownloadResume(r, fails) ==
    /\ r \in req
    /\ r.kind = "download"
    /\ LET sid == r.sid
           stored == sid \in DOMAIN sessions
       IN /\ Commit(IF fails THEN Cur ELSE CleanUpAfterDownload(Cur, sid), {})
          /\ resp' = IF fails
                     THEN Response("download", sid, 500, "export", FALSE, stored)
                     ELSE Response("download", sid, 200, "ok", FALSE, stored)
          /\ downloaded' = IF fails THEN downloaded ELSE downloaded \cup {sid}
    /\ req' = req \ {r}
    /\ UNCHANGED nextId

(* POST upload with a sessionId, upload route lines 13-68, up to the 404   *)
(* or to "await processExcelFile / processCSVFile".                        *)
UploadRequest(sid, fileKey) ==
    /\ CanSuspend(req, "upload", sid, fileKey)
    /\ LET g == GetSessionResult(Cur, sid, now)
           stored == sid \in DOMAIN sessions
       IN /\ Commit(g.st, {})
          /\ resp' = IF g.found THEN NoResponse
                     ELSE Response("upload", sid, 404, "session", TRUE, stored)
          /\ req' = IF g.found
                    THEN req \cup {UploadPending(sid, fileKey)}
                    ELSE req
    /\ UNCHANGED <<nextId, downloaded>>

(* POST upload without a sessionId: createSession, then the same await. *)
UploadRequestNew(fileKey) ==
    /\ CanSuspend(req, "upload", nextId, fileKey)
    /\ CreateSession
    /\ resp' = NoResponse
    /\ req' = req \cup {UploadPending(nextId, fileKey)}
    /\ UNCHANGED downloaded

(* The upload r resumed, lines 69-118; parsed = FALSE: the file could not  *)
(* be read or failed validateFileData (400); rowCount: the number of       *)
(* records of the sanitized file.  The response carries the file key, the  *)
(* row count and, as history, what the request met.                        *)
UploadResume(r, parsed, rowCount) ==
    /\ r \in req
    /\ r.kind = "upload"
    /\ LET sid == r.sid
           a == IF parsed
                THEN AddFileToSession(Cur, sid, r.fileKey, FileDataOf(rowCount), now)
                ELSE [st |-> Cur, ok |-> FALSE]
           stored == sid \in DOMAIN sessions
           meets(o) == o.kind = "upload" /\ o.sid = sid /\ a.ok
       IN /\ Commit(a.st, IF a.ok THEN {sid} ELSE {})
          /\ resp' = [fileKey |-> r.fileKey, met |-> r.met,
                      rowCount |-> IF parsed THEN rowCount ELSE 0]
                     @@ (IF ~parsed
                         THEN Response("upload", sid, 400, "input", FALSE, stored)
                         ELSE IF ~a.ok
                         THEN Response("upload", sid, 500, "save", TRUE, stored)
                         ELSE Response("upload", sid, 200, "ok", FALSE, stored))
          /\ req' = {IF meets(o)
                     THEN [o EXCEPT !.met = o.met \cup {r.fileKey}]
                     ELSE o : o \in req \ {r}}
    /\ UNCHANGED <<nextId, downloaded>>

(* A timer, the sweep or the clock between two turns of the handlers. *)
Background(A) ==
    /\ A
    /\ resp' = NoResponse
    /\ UNCHANGED <<req, downloaded>>

----------------------------------------------------------------------------
(* Cell values.  A cell is null, a number or a string; undefined is what   *)
(* record[column] yields for a column the record lacks.  Numbers are kept *)
(* in hundredths (c = 150 is 1.5), strings as sequences of characters.     *)

Val(t, c, s) == [t |-> t, c |-> c, s |-> s]
Null == Val("null", 0, <<>>)
Undefined == Val("undefined", 0, <<>>)
Num(c) == Val("num", c, <<>>)
Str(s) == Val("str", 0, s)

(* value === null || value === undefined *)
IsNullish(v) == v.t \in {"null", "undefined"}

DigitChars == <<"0", "1", "2", "3", "4", "5", "6", "7", "8", "9">>
IsDigit(ch) == \E d \in 1..10 : DigitChars[d] = ch
DigitOf(ch) == (CHOOSE d \in 1..10 : DigitChars[d] = ch) - 1
IsSpace(ch) == ch \in {" ", "\t", "\n"}

UpperChars == <<"A", "B", "C", "X", "Y">>
LowerChars == <<"a", "b", "c", "x", "y">>

(* String.prototype.toLowerCase, one character *)
LowerChar(ch) ==
    IF \E i \in 1..Len(UpperChars) : UpperChars[i] = ch
    THEN LowerChars[CHOOSE i \in 1..Len(UpperChars) : UpperChars[i] = ch]
    ELSE ch

ToLowerCase(s) == [i \in 1..Len(s) |-> LowerChar(s[i])]

RECURSIVE TrimStart(_)
TrimStart(s) ==
    IF s # <<>> /\ IsSpace(Head(s)) THEN TrimStart(Tail(s)) ELSE s

RECURSIVE TrimEnd(_)
TrimEnd(s) ==
    IF s # <<>> /\ IsSpace(s[Len(s)]) THEN TrimEnd(SubSeq(s, 1, Len(s) - 1))
    ELSE s

(* String.prototype.trim *)
Trim(s) == TrimEnd(TrimStart(s))

RECURSIVE Digits(_)
Digits(n) ==
    IF n < 10 THEN <<DigitChars[n + 1]>>
    ELSE Digits(n \div 10) \o <<DigitChars[(n % 10) + 1]>>

Abs(n) == IF n < 0 THEN -n ELSE n

(* String(number) for a number of at most two decimals: "5", "-2", "1.5",  *)
(* "0.25".                                                                 *)
NumberToString(c) ==
    LET a == Abs(c)
        f == a % 100
    IN (IF c < 0 THEN <<"-">> ELSE <<>>)
       \o Digits(a \div 100)
       \o (IF f = 0 THEN <<>>
           ELSE IF f % 10 = 0 THEN <<".", DigitChars[(f \div 10) + 1]>>
           ELSE <<".", DigitChars[(f \div 10) + 1], DigitChars[(f % 10) + 1]>>)

(* String(value) *)
StringOf(v) ==
    CASE v.t = "str" -> v.s
      [] v.t = "num" -> NumberToString(v.c)
      [] v.t = "null" -> <<"n", "u", "l", "l">>
      [] OTHER -> <<"u", "n", "d", "e", "f", "i", "n", "e", "d">>

(* The longest prefix of digits of s. *)
RECURSIVE DigitPrefix(_)
DigitPrefix(s) ==
    IF s # <<>> /\ IsDigit(Head(s)) THEN <<Head(s)>> \o DigitPrefix(Tail(s))
    ELSE <<>>

RECURSIVE DigitsValue(_)
DigitsValue(s) ==
    IF s = <<>> THEN 0
    ELSE 10 * DigitsValue(SubSeq(s, 1, Len(s) - 1)) + DigitOf(s[Len(s)])

Drop(s, n) == SubSeq(s, n + 1, Len(s))

(* parseFloat: leading white space, an optional sign, digits, an optional *)
(* fraction; whatever follows is ignored; NaN when no digit was read.  The *)
(* exponent part and "Infinity" are left out (no modelled cell has them), *)
(* and a fraction is read to two places.                                   *)
ParseFloat(s) ==
    LET t == TrimStart(s)
        signed == t # <<>> /\ Head(t) \in {"+", "-"}
        neg == signed /\ Head(t) = "-"
        u == IF signed THEN Tail(t) ELSE t
        ip == DigitPrefix(u)
        r == Drop(u, Len(ip))
        fp == IF r # <<>> /\ Head(r) = "." THEN DigitPrefix(Tail(r)) ELSE <<>>
        f2 == SubSeq(fp \o <<"0", "0">>, 1, 2)
        mag == 100 * DigitsValue(ip) + DigitsValue(f2)
    IN IF ip = <<>> /\ fp = <<>>
       THEN [nan |-> TRUE, c |-> 0]
       ELSE [nan |-> FALSE, c |-> IF neg THEN -mag ELSE mag]

(* Math.round(n / d) for d > 0: halves round up. *)
RoundDiv(n, d) == (2 * n + d) \div (2 * d)

Min2(a, b) == IF a <= b THEN a ELSE b
Max2(a, b) == IF a >= b THEN a ELSE b

(* AVG written a + b / 2 *)
RoundedResultMutant(op, a, b) ==
    CASE op = "SUM" -> a + b
      [] op = "SUBTRACT" -> a - b
      [] op = "MULTIPLY" -> RoundDiv(a * b, 100)
      [] op = "DIVIDE" -> IF b = 0 THEN a
                          ELSE IF b > 0 THEN RoundDiv(100 * a, b)
                          ELSE RoundDiv(-100 * a, -b)
      [] op = "AVG" -> RoundDiv(2 * a + b, 2)
      [] op = "MIN" -> Min2(a, b)
      [] op = "MAX" -> Max2(a, b)

(* Math.round(operation(num1, num2) * 100), lines 295-298, for the arrow   *)
(* functions of lines 243-263; a and b are in hundredths.                  *)
RoundedResult(op, a, b) ==
    CASE op = "SUM" -> a + b
      [] op = "SUBTRACT" -> a - b
      [] op = "MULTIPLY" -> RoundDiv(a * b, 100)
      [] op = "DIVIDE" -> IF b = 0 THEN a
                          ELSE IF b > 0 THEN RoundDiv(100 * a, b)
                          ELSE RoundDiv(-100 * a, -b)
      [] op = "AVG" -> RoundDiv(a + b, 2)
      [] op = "MIN" -> Min2(a, b)
      [] op = "MAX" -> Max2(a, b)

NumericOperations == {"SUM", "SUBTRACT", "MULTIPLY", "DIVIDE", "AVG", "MIN", "MAX"}
Operations == NumericOperations \cup {"TAKE_NEW", "TAKE_OLD", "CONCATENATE", "MERGE_ALL"}

(* performNumericOperation returning the second operand on NaN *)
PerformNumericOperationMutant(value1, value2, op) ==
    LET num1 == ParseFloat(StringOf(value1))
        num2 == ParseFloat(StringOf(value2))
    IN IF num1.nan \/ num2.nan THEN value2
       ELSE Num(RoundedResult(op, num1.c, num2.c))

(* performNumericOperation, lines 279-299 *)
PerformNumericOperation(value1, value2, op) ==
    LET num1 == ParseFloat(StringOf(value1))
        num2 == ParseFloat(StringOf(value2))
    IN IF num1.nan \/ num2.nan THEN value1
       ELSE Num(RoundedResult(op, num1.c, num2.c))

(* applyMergeOperation lines 224-229: the null/undefined operands *)
NullOperandResultMutant(value1, value2, operation) ==
    IF IsNullish(value1) THEN value2 ELSE value1
NullOperandResult(value1, value2, operation) ==
    IF IsNullish(value1)
    THEN (IF operation = "TAKE_OLD" THEN value1 ELSE value2)
    ELSE (IF operation = "TAKE_NEW" THEN value2 ELSE value1)

(* The switch of lines 231-273 *)
Dispatch(value1, value2, operation) ==
    CASE operation = "MERGE_ALL" -> value1
      [] operation = "TAKE_NEW" -> value2
      [] operation = "TAKE_OLD" -> value1
      [] operation \in NumericOperations ->
           PerformNumericOperation(value1, value2, operation)
      [] operation = "CONCATENATE" ->
           Str(StringOf(value1) \o <<" ", "|", " ">> \o StringOf(value2))
      [] OTHER -> value1

(* The null checks moved into the numeric operators only *)
ApplyMergeOperationMutant(value1, value2, operation) ==
    IF (IsNullish(value1) \/ IsNullish(value2)) /\ operation \in NumericOperations
    THEN NullOperandResult(value1, value2, operation)
    ELSE Dispatch(value1, value2, operation)

(* applyMergeOperation, lines 222-274 *)
ApplyMergeOperation(value1, value2, operation) ==
    IF IsNullish(value1) \/ IsNullish(value2)
    THEN NullOperandResult(value1, value2, operation)
    ELSE Dispatch(value1, value2, operation)

----------------------------------------------------------------------------
(* The match engine.  A record is a function from its keys to cells; a     *)
(* FileData is [columns, data].  JavaScript compares records by reference: *)
(* the parser builds one object per row, so a record's identity is its     *)
(* index in its file's data.                                               *)

(* record[columnName] returned as it is, without "?? null" *)
GetColumnValueMutant(record, columnName) ==
    IF columnName = "" THEN Null
    ELSE IF columnName \notin DOMAIN record THEN Undefined
    ELSE record[columnName]

(* getColumnValue, lines 304-310 *)
GetColumnValue(record, columnName) ==
    IF columnName = "" THEN Null
    ELSE IF columnName \notin DOMAIN record THEN Null
    ELSE IF IsNullish(record[columnName]) THEN Null
    ELSE record[columnName]

(* A comparison that does not fold the case *)
IsValueMatchMutant(value1, value2) ==
    IF IsNullish(value1) \/ IsNullish(value2)
    THEN value1 = value2
    ELSE Trim(StringOf(value1)) = Trim(StringOf(value2))

(* isValueMatch, lines 148-164 *)
IsValueMatch(value1, value2) ==
    IF IsNullish(value1) \/ IsNullish(value2)
    THEN value1 = value2
    ELSE ToLowerCase(Trim(StringOf(value1))) = ToLowerCase(Trim(StringOf(value2)))

(* An inner loop that keeps the last matching position *)
FirstMatchMutant(file1Value, f2, work, column) ==
    LET hits == {i \in 1..Len(work) :
                    IsValueMatch(file1Value, GetColumnValue(f2.data[work[i]], column))}
    IN IF hits = {} THEN 0 ELSE CHOOSE i \in hits : \A j \in hits : i >= j

(* The inner loop, lines 123-134: the first position of the working copy   *)
(* whose record matches, 0 when none does.                                 *)
FirstMatch(file1Value, f2, work, column) ==
    LET hits == {i \in 1..Len(work) :
                    IsValueMatch(file1Value, GetColumnValue(f2.data[work[i]], column))}
    IN IF hits = {} THEN 0 ELSE CHOOSE i \in hits : \A j \in hits : i <= j

RemoveAt(s, i) == SubSeq(s, 1, i - 1) \o SubSeq(s, i + 1, Len(s))

(* uniqueInFile2.splice(i, 1), line 130 *)
SpliceMutant(work, i) == work
Splice(work, i) == RemoveAt(work, i)

(* uniqueInFile1.push(file1Record), lines 137-139 *)
PushUniqueMutant(unique, i) == IF unique = <<>> THEN <<i>> ELSE unique
PushUnique(unique, i) == Append(unique, i)

(* findDuplicatesAndUnique, lines 105-143, from record i of file1 on; the  *)
(* three outputs hold indices into file1.data and file2.data.              *)
RECURSIVE MatchFrom(_, _, _, _, _)
MatchFrom(i, f1, f2, mapping, acc) ==
    IF i > Len(f1.data) THEN acc
    ELSE LET file1Value == GetColumnValue(f1.data[i], mapping.file1Column)
             m == FirstMatch(file1Value, f2, acc.uniqueInFile2, mapping.file2Column)
         IN MatchFrom(i + 1, f1, f2, mapping,
                IF m # 0
                THEN [duplicates |-> Append(acc.duplicates,
                                       [file1Record |-> i,
                                        file2Record |-> acc.uniqueInFile2[m]]),
                      uniqueInFile1 |-> acc.uniqueInFile1,
                      uniqueInFile2 |-> Splice(acc.uniqueInFile2, m)]
                ELSE [duplicates |-> acc.duplicates,
                      uniqueInFile1 |-> PushUnique(acc.uniqueInFile1, i),
                      uniqueInFile2 |-> acc.uniqueInFile2])

FindDuplicatesAndUnique(f1, f2, mapping) ==
    MatchFrom(1, f1, f2, mapping,
              [duplicates |-> <<>>, uniqueInFile1 |-> <<>>,
               uniqueInFile2 |-> [i \in 1..Len(f2.data) |-> i]])

----------------------------------------------------------------------------
(* The merge engine *)

HasMergeAll(operations) ==
    \E i \in 1..Len(operations) : operations[i].operation = "MERGE_ALL"

Cell(record, column) ==
    IF column \in DOMAIN record THEN record[column] ELSE Undefined

SetCell(record, column, value) ==
    [c \in DOMAIN record \cup {column} |->
        IF c = column THEN value ELSE record[c]]

(* Object.keys(record): the record's keys in the order the parser set      *)
(* them, which is the order of the file's columns.                         *)
KeysOf(record, columns) ==
    SelectSeq(columns, LAMBDA c : c \in DOMAIN record)

(* Merge-all that copies no column of file2Record *)
MergeAllFromMutant(j, keys, mergedRecord, file2Record) == mergedRecord

(* Merge-all, lines 182-199: the keys of file2Record from position j on. *)
RECURSIVE MergeAllFrom(_, _, _, _)
MergeAllFrom(j, keys, mergedRecord, file2Record) ==
    IF j > Len(keys) THEN mergedRecord
    ELSE LET key == keys[j]
         IN MergeAllFrom(j + 1, keys,
                IF key \in DOMAIN mergedRecord /\ mergedRecord[key] # file2Record[key]
                THEN SetCell(mergedRecord, "file2_" \o key, file2Record[key])
                ELSE IF key \notin DOMAIN mergedRecord
                THEN SetCell(mergedRecord, key, file2Record[key])
                ELSE mergedRecord,
                file2Record)

(* Column operations, lines 201-215: the operations from position j on. *)
RECURSIVE ApplyOperationsFrom(_, _, _, _, _)
ApplyOperationsFrom(j, operations, mergedRecord, file1Record, file2Record) ==
    IF j > Len(operations) THEN mergedRecord
    ELSE LET o == operations[j]
         IN ApplyOperationsFrom(j + 1, operations,
                IF o.operation = "MERGE_ALL" THEN mergedRecord
                ELSE SetCell(mergedRecord, o.column,
                         ApplyMergeOperation(Cell(file1Record, o.column),
                                             Cell(file2Record, o.column),
                                             o.operation)),
                file1Record, file2Record)

(* The body of the map callback of mergeDuplicateRecords, lines 176-216 *)
MergePair(file1Record, file2Record, file2Columns, operations) ==
    IF HasMergeAll(operations)
    THEN MergeAllFrom(1, KeysOf(file2Record, file2Columns), file1Record, file2Record)
    ELSE ApplyOperationsFrom(1, operations, file1Record, file1Record, file2Record)

(* mergeDuplicateRecords, lines 169-217 *)
MergeDuplicateRecords(duplicates, f1, f2, operations) ==
    [k \in 1..Len(duplicates) |->
        MergePair(f1.data[duplicates[k].file1Record],
                  f2.data[duplicates[k].file2Record], f2.columns, operations)]

(* processDuplicates lines 20-73: the merged sequence.  With MERGE_ALL it  *)
(* is every record of file1, each paired one replaced by its merged        *)
(* record, followed by a copy of every unpaired record of file2.           *)
MergedRecordsMutant(f1, f2, duplicates, operations) ==
    MergeDuplicateRecords(duplicates, f1, f2, operations)
MergedRecords(f1, f2, duplicates, operations) ==
    LET duplicateMerged == MergeDuplicateRecords(duplicates, f1, f2, operations)
        pairOf(i) == CHOOSE k \in 1..Len(duplicates) : duplicates[k].file1Record = i
        isPaired1(i) == \E k \in 1..Len(duplicates) : duplicates[k].file1Record = i
        isPaired2(i) == \E k \in 1..Len(duplicates) : duplicates[k].file2Record = i
        left2 == SelectSeq([i \in 1..Len(f2.data) |-> i], LAMBDA i : ~isPaired2(i))
    IN IF HasMergeAll(operations)
       THEN [i \in 1..Len(f1.data) |->
                IF isPaired1(i) THEN duplicateMerged[pairOf(i)] ELSE f1.data[i]]
            \o [j \in 1..Len(left2) |-> f2.data[left2[j]]]
       ELSE duplicateMerged

(* { ...file1Record }, lines 184 and 202: mergedRecord is a new object, so  *)
(* the assignments of lines 190-193 and 212 leave file1Record as it was.   *)
File1RecordAfterMutant(file1Record, mergedRecord) == mergedRecord
File1RecordAfter(file1Record, mergedRecord) == file1Record

(* file1.data once processDuplicates has returned: the objects of the      *)
(* caller's array after the merge callback has run on each paired one.     *)
File1DataAfter(f1, f2, duplicates, operations) ==
    LET duplicateMerged == MergeDuplicateRecords(duplicates, f1, f2, operations)
        pairOf(i) == CHOOSE k \in 1..Len(duplicates) : duplicates[k].file1Record = i
        isPaired1(i) == \E k \in 1..Len(duplicates) : duplicates[k].file1Record = i
    IN [i \in 1..Len(f1.data) |->
           IF isPaired1(i)
           THEN File1RecordAfter(f1.data[i], duplicateMerged[pairOf(i)])
           ELSE f1.data[i]]

(* Statistics that take the merged count to be the duplicate count *)
CalculateStatisticsMutant(f1, f2, duplicates, uniqueInFile1, uniqueInFile2, merged) ==
    [totalFile1 |-> Len(f1.data),
     totalFile2 |-> Len(f2.data),
     duplicateCount |-> Len(duplicates),
     uniqueFile1Count |-> Len(uniqueInFile1),
     uniqueFile2Count |-> Len(uniqueInFile2),
     mergedCount |-> Len(duplicates)]

(* calculateStatistics, lines 315-334 *)
CalculateStatistics(f1, f2, duplicates, uniqueInFile1, uniqueInFile2, merged) ==
    [totalFile1 |-> Len(f1.data),
     totalFile2 |-> Len(f2.data),
     duplicateCount |-> Len(duplicates),
     uniqueFile1Count |-> Len(uniqueInFile1),
     uniqueFile2Count |-> Len(uniqueInFile2),
     mergedCount |-> Len(merged)]

InSeq(x, s) == \E i \in 1..Len(s) : s[i] = x

(* validateProcessingInputs, lines 339-405: the error thrown, "" if none *)
ValidateProcessingInputs(f1, f2, mapping, operations) ==
    IF Len(f1.data) = 0 THEN "File 1 is empty or invalid"
    ELSE IF Len(f2.data) = 0 THEN "File 2 is empty or invalid"
    ELSE IF mapping.file1Column = "" \/ mapping.file2Column = ""
    THEN "Column mapping is incomplete"
    ELSE IF ~InSeq(mapping.file1Column, f1.columns) THEN "Column not found in File 1"
    ELSE IF ~InSeq(mapping.file2Column, f2.columns) THEN "Column not found in File 2"
    ELSE IF Len(operations) = 0 THEN "No merge operations specified"
    ELSE IF /\ ~HasMergeAll(operations)
            /\ \E j \in 1..Len(operations) :
                  operations[j].column = "" \/ operations[j].operation = ""
    THEN "Invalid merge operation configuration"
    ELSE IF /\ ~HasMergeAll(operations)
            /\ \E j \in 1..Len(operations) :
                  /\ ~InSeq(operations[j].column, f1.columns)
                  /\ ~InSeq(operations[j].column, f2.columns)
    THEN "Column specified in merge operations not found in either file"
    ELSE IF \E j \in 1..Len(operations) : operations[j].operation = ""
    THEN "Invalid merge operation configuration - missing operation"
    ELSE ""

(* processDuplicates, lines 6-100 *)
ProcessDuplicates(f1, f2, mapping, operations) ==
    LET err == ValidateProcessingInputs(f1, f2, mapping, operations)
        found == FindDuplicatesAndUnique(f1, f2, mapping)
        merged == MergedRecords(f1, f2, found.duplicates, operations)
    IN IF err # "" THEN [ok |-> FALSE, error |-> err]
       ELSE [ok |-> TRUE,
             duplicates |-> [k \in 1..Len(found.duplicates) |->
                                f1.data[found.duplicates[k].file1Record]],
             uniqueInFile1 |-> [k \in 1..Len(found.uniqueInFile1) |->
                                   f1.data[found.uniqueInFile1[k]]],
             uniqueInFile2 |-> [k \in 1..Len(found.uniqueInFile2) |->
                                   f2.data[found.uniqueInFile2[k]]],
             merged |-> merged,
             stats |-> CalculateStatistics(f1, f2, found.duplicates,
                           found.uniqueInFile1, found.uniqueInFile2, merged)]

----------------------------------------------------------------------------
(* The result validator, src/src/lib/result-processor.ts.  A property of   *)
(* the result object is an array of some length, missing (undefined) or a  *)
(* value that is not an array (a number); stats is an object of six counts *)
(* or missing.                                                             *)

ArrayOf(n) == [t |-> "array", len |-> n]
Missing == [t |-> "undefined", len |-> 0]
NotArray == [t |-> "number", len |-> 0]

(* Array.isArray(v) *)
IsArray(v) == v.t = "array"

(* v.length: a TypeError on undefined, undefined (here -1, a value no      *)
(* count equals) on a number.                                              *)
LengthThrows(v) == v.t = "undefined"
LengthOf(v) == IF v.t = "array" THEN v.len ELSE -1

(* errors.push(message) when the check fails *)
PushIf(errors, failed, message) ==
    IF failed THEN Append(errors, message) ELSE errors

(* Lines 174-188: the four array checks *)
ArrayErrors(r) ==
    PushIf(PushIf(PushIf(PushIf(<<>>,
        ~IsArray(r.duplicates), "Duplicates data is invalid"),
        ~IsArray(r.uniqueInFile1), "Unique File 1 data is invalid"),
        ~IsArray(r.uniqueInFile2), "Unique File 2 data is invalid"),
        ~IsArray(r.merged), "Merged data is invalid")

(* Lines 194-218: the count checks, reached when stats is there *)
CountErrors(errors, r) ==
    PushIf(PushIf(PushIf(PushIf(PushIf(PushIf(errors,
        r.stats.duplicateCount # LengthOf(r.duplicates), "Duplicate count mismatch"),
        r.stats.uniqueFile1Count # LengthOf(r.uniqueInFile1),
            "Unique File 1 count mismatch"),
        r.stats.uniqueFile2Count # LengthOf(r.uniqueInFile2),
            "Unique File 2 count mismatch"),
        r.stats.mergedCount # LengthOf(r.merged), "Merged count mismatch"),
        r.stats.duplicateCount + r.stats.uniqueFile1Count # r.stats.totalFile1,
            "File 1 total count mismatch"),
        r.stats.duplicateCount + r.stats.uniqueFile2Count # r.stats.totalFile2,
            "File 2 total count mismatch")

Returned(errors) == [thrown |-> FALSE, valid |-> errors = <<>>, errors |-> errors]
Thrown == [thrown |-> TRUE, valid |-> FALSE, errors |-> <<>>]

(* validateResults, lines 158-224 *)
ValidateResults(r) ==
    IF r.t = "undefined"
    THEN [thrown |-> FALSE, valid |-> FALSE, errors |-> <<"Results data is missing">>]
    ELSE IF r.stats.t = "undefined"
    THEN Returned(Append(ArrayErrors(r), "Statistics data is missing"))
    ELSE IF \/ LengthThrows(r.duplicates) \/ LengthThrows(r.uniqueInFile1)
            \/ LengthThrows(r.uniqueInFile2) \/ LengthThrows(r.merged)
    THEN Thrown
    ELSE Returned(CountErrors(ArrayErrors(r), r))

----------------------------------------------------------------------------
(* Inputs of the engine *)

Row(k, v) == [c \in {"k", "v"} |-> IF c = "k" THEN k ELSE v]

SampleRows ==
    {Row(Str(<<"X">>), Num(100)),
     Row(Str(<<" ", "x", " ">>), Str(<<"a">>)),
     Row(Null, Num(250)),
     Row(Str(<<"Y">>), Str(<<"5">>))}

SampleData == UNION {[1..n -> SampleRows] : n \in 0..MaxRows}

SampleFiles == {[columns |-> <<"k", "v">>, data |-> d] : d \in SampleData}

SampleMappings ==
    {[file1Column |-> "k", file2Column |-> "k"],
     [file1Column |-> "k", file2Column |-> "v"],
     [file1Column |-> "zz", file2Column |-> "k"]}

Operation(column, operation) == [column |-> column, operation |-> operation]

SampleOperations ==
    {<<Operation("ALL_COLUMNS", "MERGE_ALL")>>,
     <<Operation("v", "SUM")>>,
     <<Operation("v", "TAKE_NEW"), Operation("k", "TAKE_OLD")>>,
     <<>>}

SampleValues ==
    {Null, Undefined, Num(500), Num(0), Num(-250),
     Str(<<"5">>), Str(<<" ", "1", ".", "5">>), Str(<<"a", "b", "c">>), Str(<<>>)}

(* Files whose records do not all have every column: the Excel reader     *)
(* sets no key for an empty cell (lines 447-452), the CSV reader sets      *)
(* null (lines 572-590).  file1 has a column named file2_v, file2 a column *)
(* w that file1 lacks.                                                     *)
WideRows1 ==
    {("k" :> Str(<<"X">>)) @@ ("v" :> Num(100)) @@ ("file2_v" :> Num(900)),
     ("v" :> Str(<<"a", "b", "c">>)),
     ("k" :> Str(<<"X">>)) @@ ("v" :> Num(200))}

WideRows2 ==
    {("k" :> Str(<<"x">>)) @@ ("v" :> Num(200)) @@ ("w" :> Num(300)),
     ("k" :> Null) @@ ("v" :> Str(<<"a", "b", "c">>)),
     ("k" :> Str(<<"X">>)) @@ ("v" :> Num(100))}

WideFiles1 ==
    {[columns |-> <<"k", "v", "file2_v">>, data |-> d] :
        d \in UNION {[1..n -> WideRows1] : n \in 1..MaxRows}}

WideFiles2 ==
    {[columns |-> <<"k", "v", "w">>, data |-> d] :
        d \in UNION {[1..n -> WideRows2] : n \in 1..MaxRows}}

WideMappings == {[file1Column |-> "k", file2Column |-> "k"]}

WideOperations ==
    {<<Operation("ALL_COLUMNS", "MERGE_ALL")>>,
     <<Operation("v", "SUM")>>,
     <<Operation("w", "TAKE_NEW")>>,
     <<Operation("k", "TAKE_OLD"), Operation("v", "CONCATENATE")>>}

SampleLengths == 0..1

SampleProperties == {ArrayOf(n) : n \in SampleLengths} \cup {Missing, NotArray}

SampleStats ==
    {[t |-> "undefined"]} \cup
    [t : {"object"}, totalFile1 : 0..2, totalFile2 : 0..1,
     duplicateCount : SampleLengths, uniqueFile1Count : SampleLengths,
     uniqueFile2Count : SampleLengths, mergedCount : SampleLengths]

SampleResults ==
    {[t |-> "undefined"]} \cup
    [t : {"object"}, duplicates : SampleProperties,
     uniqueInFile1 : SampleProperties, uniqueInFile2 : SampleProperties,
     merged : SampleProperties, stats : SampleStats]

EngineOff ==
    /\ pc = "off"
    /\ file1 = <<>>
    /\ file2 = <<>>
    /\ columnMapping = <<>>
    /\ mergeOptions = <<>>
    /\ results = <<>>
    /\ matched = <<>>
    /\ opIn = <<>>
    /\ opOut = <<>>

StoreEmpty ==
    /\ now = 0
    /\ sessions = <<>>
    /\ timers = {}
    /\ cleanupTimeouts = <<>>
    /\ nextId = 1
    /\ stale = {}
    /\ ev = Event("init", 0, "none", 0, FALSE, FALSE)
    /\ rem = {}

RoutesIdle ==
    /\ req = {}
    /\ resp = NoResponse
    /\ downloaded = {}

Init ==
    /\ StoreEmpty
    /\ EngineOff
    /\ RoutesIdle

Next ==
    \/ (CreateSession /\ UNCHANGED <<engineVars, routeVars>>)
    \/ \E sid \in SessionIds : GetSession(sid) /\ UNCHANGED <<engineVars, routeVars>>
    \/ \E sid \in SessionIds : UpdateSession(sid, FALSE, 0) /\ UNCHANGED <<engineVars, routeVars>>
    \/ \E sid \in SessionIds : \E la \in SuppliedTimes(now) :
           UpdateSession(sid, TRUE, la) /\ UNCHANGED <<engineVars, routeVars>>
    \/ \E sid \in SessionIds : Delete(sid) /\ UNCHANGED <<engineVars, routeVars>>
    \/ \E sid \in SessionIds : RemainingTime(sid) /\ UNCHANGED <<engineVars, routeVars>>
    \/ \E sid \in SessionIds : ExpirationWarning(sid) /\ UNCHANGED <<engineVars, routeVars>>
    \/ \E h \in timers : TimerFire(h) /\ UNCHANGED <<engineVars, routeVars>>
    \/ (CleanupExpiredSessions /\ UNCHANGED <<engineVars, routeVars>>)
    \/ (Tick /\ UNCHANGED <<engineVars, routeVars>>)

Spec == Init /\ [][Next]_vars

(* The ids the requests name: those createSession can have handed out *)
RouteSessionIds == 1..MaxRouteSessions

NextRoutes ==
    \/ (SessionCreate /\ nextId <= MaxRouteSessions /\ UNCHANGED engineVars)
    \/ \E sid \in RouteSessionIds : SessionDelete(sid) /\ UNCHANGED engineVars
    \/ \E sid \in RouteSessionIds : SessionStatus(sid) /\ UNCHANGED engineVars
    \/ \E sid \in RouteSessionIds : \E fileKey \in FileKeys :
           FileDataRequest(sid, fileKey) /\ UNCHANGED engineVars
    \/ \E sid \in RouteSessionIds : \E body \in SampleBodies :
           \E outcome \in ProcessOutcomes :
               ProcessRequest(sid, body, outcome) /\ UNCHANGED engineVars
    \/ \E sid \in RouteSessionIds : \E format \in {"excel", "csv"} :
           \E empty, fails \in BOOLEAN :
               DownloadRequest(sid, format, empty, fails)
                   /\ Cardinality(req') <= MaxRouteInFlight
                   /\ UNCHANGED engineVars
    \/ \E r \in req : \E fails \in BOOLEAN :
           DownloadResume(r, fails) /\ UNCHANGED engineVars
    \/ \E sid \in RouteSessionIds : \E fileKey \in FileKeys :
           UploadRequest(sid, fileKey) /\ Cardinality(req') <= MaxRouteInFlight
               /\ UNCHANGED engineVars
    \/ \E fileKey \in FileKeys :
           UploadRequestNew(fileKey) /\ nextId <= MaxRouteSessions
               /\ Cardinality(req') <= MaxRouteInFlight /\ UNCHANGED engineVars
    \/ \E r \in req : \E parsed \in BOOLEAN : \E rowCount \in SampleRowCounts :
           UploadResume(r, parsed, rowCount) /\ UNCHANGED engineVars
    \/ \E h \in timers : Background(TimerFire(h)) /\ UNCHANGED engineVars
    \/ (Background(CleanupExpiredSessions) /\ UNCHANGED engineVars)
    \/ (Background(Tick) /\ UNCHANGED engineVars)

SpecRoutes == Init /\ [][NextRoutes]_vars

(* The upload handlers alone, with up to MaxInFlight of them suspended. *)
NextUploads ==
    \/ (SessionCreate /\ nextId <= MaxRouteSessions /\ UNCHANGED engineVars)
    \/ \E sid \in RouteSessionIds : SessionDelete(sid) /\ UNCHANGED engineVars
    \/ \E sid \in RouteSessionIds : \E fileKey \in FileKeys :
           FileDataRequest(sid, fileKey) /\ UNCHANGED engineVars
    \/ \E sid \in RouteSessionIds : \E fileKey \in FileKeys :
           UploadRequest(sid, fileKey) /\ UNCHANGED engineVars
    \/ \E fileKey \in FileKeys :
           UploadRequestNew(fileKey) /\ nextId <= MaxRouteSessions
               /\ UNCHANGED engineVars
    \/ \E r \in req : \E parsed \in BOOLEAN : \E rowCount \in SampleRowCounts :
           UploadResume(r, parsed, rowCount) /\ UNCHANGED engineVars
    \/ \E h \in timers : Background(TimerFire(h)) /\ UNCHANGED engineVars
    \/ (Background(CleanupExpiredSessions) /\ UNCHANGED engineVars)
    \/ (Background(Tick) /\ UNCHANGED engineVars)

SpecUploads == Init /\ [][NextUploads]_vars

----------------------------------------------------------------------------
(* The upload pipeline on a parsed file, src/src/lib/data-validator.ts:    *)
(* validateFileData, then sanitizeFileData.  Here a column name is a       *)
(* sequence of characters and a row is a function from its keys (column    *)
(* names) to cell values.                                                  *)

MaxRowsChecked == 100
MaxFileRows == 100000
MaxColumnNameLength == 100
MaxCellLength == 1000

(* Array.prototype.includes *)
Includes(array, x) == \E i \in 1..Len(array) : array[i] = x

(* String.prototype.slice(0, n) *)
SliceTo(s, n) == SubSeq(s, 1, IF Len(s) < n THEN Len(s) ELSE n)

(* \w of a regular expression *)
IsWordChar(ch) ==
    \/ \E i \in 1..Len(UpperChars) : UpperChars[i] = ch
    \/ \E i \in 1..Len(LowerChars) : LowerChars[i] = ch
    \/ IsDigit(ch)
    \/ ch = "_"

(* replace(/\s+/g, " ") *)
RECURSIVE CollapseSpaces(_)
CollapseSpaces(s) ==
    IF s = <<>> THEN <<>>
    ELSE IF IsSpace(Head(s)) THEN <<" ">> \o CollapseSpaces(TrimStart(Tail(s)))
    ELSE <<Head(s)>> \o CollapseSpaces(Tail(s))

(* replace(/[^\w\s.-]/g, "") *)
KeptChar(ch) == IsWordChar(ch) \/ IsSpace(ch) \/ ch \in {".", "-"}
RemoveSpecial(s) == SelectSeq(s, KeptChar)

(* sanitizeColumnName, lines 111-121 *)
SanitizeColumnName(columnName) ==
    IF columnName = <<>> THEN <<>>
    ELSE SliceTo(RemoveSpecial(CollapseSpaces(Trim(columnName))),
                 MaxColumnNameLength)

(* sanitizeValue, lines 143-186, on the cell values of the model: null,    *)
(* undefined, strings and finite numbers                                   *)
SanitizeValue(value) ==
    IF IsNullish(value) THEN Null
    ELSE IF value.t = "str"
    THEN IF Trim(value.s) = <<>> THEN Null
         ELSE Str(SliceTo(Trim(value.s), MaxCellLength))
    ELSE value

(* sanitizeDataRow, lines 126-138: one key for each valid column *)
SanitizeDataRow(row, validColumns) ==
    [column \in {validColumns[i] : i \in 1..Len(validColumns)} |->
        SanitizeValue(Cell(row, column))]

(* sanitizeFileData, lines 89-106 *)
SanitizeFileData(fileData) ==
    LET cleanedColumns ==
            SelectSeq([i \in 1..Len(fileData.columns) |->
                          SanitizeColumnName(fileData.columns[i])],
                      LAMBDA col : col # <<>>)
        cleanedData ==
            SelectSeq([i \in 1..Len(fileData.data) |->
                          SanitizeDataRow(fileData.data[i], cleanedColumns)],
                      LAMBDA row : DOMAIN row # {})
    IN [columns |-> cleanedColumns,
        data |-> cleanedData,
        rowCount |-> Len(cleanedData)]

(* The errors validateFileData pushes for rows from..to, lines 56-77 *)
RECURSIVE RowErrors(_, _, _)
RowErrors(fileData, from, to) ==
    IF from > to THEN <<>>
    ELSE LET row == fileData.data[from]
         IN (IF DOMAIN row = {}
             THEN <<"Row " \o ToString(from) \o " is completely empty">>
             ELSE IF \E key \in DOMAIN row : ~Includes(fileData.columns, key)
             THEN <<"Row " \o ToString(from) \o " contains unexpected columns">>
             ELSE <<>>)
            \o RowErrors(fileData, from + 1, to)

(* validateFileData, lines 6-84 *)
ValidateFileData(fileData) ==
    LET columns == fileData.columns
        data == fileData.data
        uniqueColumns == {Trim(ToLowerCase(columns[i])) : i \in 1..Len(columns)}
        sampleSize == IF Len(data) < MaxRowsChecked THEN Len(data)
                      ELSE MaxRowsChecked
    IN Returned(
          (IF Len(data) = 0 THEN <<"File contains no data rows">> ELSE <<>>)
          \o (IF Len(columns) = 0 THEN <<"File contains no column headers">>
              ELSE <<>>)
          \o (IF Len(columns) < 1 THEN <<"File must have at least one column">>
              ELSE <<>>)
          \o (IF Cardinality(uniqueColumns) # Len(columns)
              THEN <<"File contains duplicate column names">> ELSE <<>>)
          \o (IF \E i \in 1..Len(columns) : Trim(columns[i]) = <<>>
              THEN <<"File contains empty column names">> ELSE <<>>)
          \o (IF fileData.rowCount # Len(data)
              THEN <<"Row count mismatch in file data">> ELSE <<>>)
          \o (IF Len(data) > MaxFileRows
              THEN <<"File contains too many rows (maximum 100,000 allowed)">>
              ELSE <<>>)
          \o RowErrors(fileData, 1, sampleSize))

(* What the parser can hand to the upload route: up to MaxColumns column   *)
(* names, up to MaxRows rows keyed by some of the names.                   *)
ParsedNames ==
    {<<"a">>, <<"A">>, <<" ", "a">>, <<"a", "$">>, <<"$">>, <<"b">>, <<>>}
ParsedRows ==
    LET ParsedKeys == {<<"a">>, <<"$">>}
        ParsedCells == {Str(<<"x", " ">>), Str(<<" ">>)}
    IN UNION {[keys -> ParsedCells] : keys \in SUBSET ParsedKeys}
SeqsUpTo(S, n) == UNION {[1..k -> S] : k \in 0..n}
ParsedFiles ==
    {[columns |-> columns, data |-> data, rowCount |-> rowCount] :
        columns \in SeqsUpTo(ParsedNames, MaxColumns),
        data \in SeqsUpTo(ParsedRows, MaxRows),
        rowCount \in 0..MaxRows}

----------------------------------------------------------------------------
(* The engine applied to drawn inputs *)

InitEngine ==
    /\ StoreEmpty
    /\ RoutesIdle
    /\ results = <<>>
    /\ matched = <<>>
    /\ opOut = <<>>
    /\ \/ /\ pc = "process"
          /\ file1 \in SampleFiles
          /\ file2 \in SampleFiles
          /\ columnMapping \in SampleMappings
          /\ mergeOptions \in SampleOperations
          /\ opIn = <<>>
       \/ /\ pc = "process"
          /\ file1 \in WideFiles1
          /\ file2 \in WideFiles2
          /\ columnMapping \in WideMappings
          /\ mergeOptions \in WideOperations
          /\ opIn = <<>>
       \/ /\ pc = "apply"
          /\ file1 = <<>>
          /\ file2 = <<>>
          /\ columnMapping = <<>>
          /\ mergeOptions = <<>>
          /\ opIn \in [value1 : SampleValues, value2 : SampleValues,
                       operation : Operations]
       \/ /\ pc = "validate"
          /\ file1 = <<>>
          /\ file2 = <<>>
          /\ columnMapping = <<>>
          /\ mergeOptions = <<>>
          /\ opIn \in SampleResults
       \/ /\ pc = "upload"
          /\ file1 = <<>>
          /\ file2 = <<>>
          /\ columnMapping = <<>>
          /\ mergeOptions = <<>>
          /\ opIn \in ParsedFiles

(* A call of processDuplicates(file1, file2, columnMapping, mergeOptions) *)
Process ==
    /\ pc = "process"
    /\ pc' = "processed"
    /\ results' = ProcessDuplicates(file1, file2, columnMapping, mergeOptions)
    /\ matched' = FindDuplicatesAndUnique(file1, file2, columnMapping)
    /\ file1' = IF ValidateProcessingInputs(file1, file2, columnMapping,
                                            mergeOptions) # ""
                THEN file1
                ELSE [file1 EXCEPT !.data =
                         File1DataAfter(file1, file2,
                             FindDuplicatesAndUnique(file1, file2,
                                                     columnMapping).duplicates,
                             mergeOptions)]
    /\ UNCHANGED <<file2, columnMapping, mergeOptions, opIn, opOut>>

(* A call of applyMergeOperation(value1, value2, operation) *)
Apply ==
    /\ pc = "apply"
    /\ pc' = "applied"
    /\ opOut' = ApplyMergeOperation(opIn.value1, opIn.value2, opIn.operation)
    /\ UNCHANGED <<file1, file2, columnMapping, mergeOptions, results, matched,
                   opIn>>

(* A call of validateResults(results) *)
Validate ==
    /\ pc = "validate"
    /\ pc' = "validated"
    /\ opOut' = ValidateResults(opIn)
    /\ UNCHANGED <<file1, file2, columnMapping, mergeOptions, results, matched,
                   opIn>>

(* The ProcessedData processDuplicates returned as validateResults reads   *)
(* it: four arrays and the stats object.                                   *)
AsResults(r) ==
    [t |-> "object",
     duplicates |-> ArrayOf(Len(r.duplicates)),
     uniqueInFile1 |-> ArrayOf(Len(r.uniqueInFile1)),
     uniqueInFile2 |-> ArrayOf(Len(r.uniqueInFile2)),
     merged |-> ArrayOf(Len(r.merged)),
     stats |-> [t |-> "object"] @@ r.stats]

(* validateResults(results) on what processDuplicates has returned,        *)
(* process route lines 127-135                                             *)
ValidateProcessed ==
    /\ pc = "processed"
    /\ results.ok
    /\ pc' = "checked"
    /\ opOut' = ValidateResults(AsResults(results))
    /\ UNCHANGED <<file1, file2, columnMapping, mergeOptions, results, matched,
                   opIn>>

(* The upload route on a parsed file, part_006 lines 81-97: a file that   *)
(* validateFileData rejects is answered with 400; any other is sanitized   *)
(* and handed to addFileToSession.                                         *)
ValidateAndSanitize ==
    /\ pc = "upload"
    /\ pc' = "uploaded"
    /\ opOut' = IF ValidateFileData(opIn).valid
                THEN [attached |-> TRUE, fileData |-> SanitizeFileData(opIn)]
                ELSE [attached |-> FALSE,
                      errors |-> ValidateFileData(opIn).errors]
    /\ UNCHANGED <<file1, file2, columnMapping, mergeOptions, results, matched,
                   opIn>>

NextEngine ==
    \/ (Process /\ UNCHANGED <<storeVars, routeVars>>)
    \/ (ValidateProcessed /\ UNCHANGED <<storeVars, routeVars>>)
    \/ (Apply /\ UNCHANGED <<storeVars, routeVars>>)
    \/ (Validate /\ UNCHANGED <<storeVars, routeVars>>)
    \/ (ValidateAndSanitize /\ UNCHANGED <<storeVars, routeVars>>)

SpecEngine == InitEngine /\ [][NextEngine]_vars

----------------------------------------------------------------------------
(* Properties of the session store, checked under Spec *)

AutomaticPaths == {"timer", "get", "sweep"}

TimersOf(sid) == {h \in timers : h.sid = sid}

(* C1: a session is removed by the expiry timer, by the lazy check of get  *)
(* or by the sweep only when its idle time at that moment is strictly      *)
(* greater than the timeout.                                               *)
C1_AutomaticRemovalOnlyPastTimeout ==
    \A r \in rem : r.by \in AutomaticPaths => r.idle > SESSION_TIMEOUT

(* C4: a timer armed before the session's last update, when it fires,      *)
(* removes the session only if the idle time measured from the refreshed   *)
(* lastActivity has reached the timeout; otherwise the session stays.      *)
C4_OldTimerRechecksRefreshedActivity ==
    (ev.op = "timer" /\ ev.old /\ ev.stored) =>
        /\ (ev.ret = "gone" => ev.idle >= SESSION_TIMEOUT)
        /\ (ev.idle < SESSION_TIMEOUT => ev.sid \in DOMAIN sessions)

(* A timer armed before an update fires and the session is kept. *)
C4_Witness ==
    ev.op = "timer" /\ ev.old /\ ev.stored /\ ev.ret = "kept"

(* C5: at most one timer is pending for a stored session, none for a       *)
(* session that is not in the store.                                       *)
C5_AtMostOnePendingTimer ==
    \A sid \in SessionIds :
        Cardinality(TimersOf(sid)) <= (IF sid \in DOMAIN sessions THEN 1 ELSE 0)

(* C6: get on a stored session idle for at most the timeout returns it,    *)
(* sets lastActivity to now and arms a timer due one timeout from now; get *)
(* on a session idle for longer returns not-found and removes it; and no   *)
(* automatic path removes a session idle for less than the timeout, so a   *)
(* session read more often than that stays fetchable.                      *)
C6_GetSlidesTheWindow ==
    /\ (ev.op = "get" /\ ev.stored /\ ev.idle <= SESSION_TIMEOUT) =>
          /\ ev.ret = "found"
          /\ ev.sid \in DOMAIN sessions
          /\ sessions[ev.sid].lastActivity = now
          /\ ev.sid \in DOMAIN cleanupTimeouts
          /\ cleanupTimeouts[ev.sid] \in timers
          /\ cleanupTimeouts[ev.sid].due = now + SESSION_TIMEOUT
    /\ (ev.op = "get" /\ ev.stored /\ ev.idle > SESSION_TIMEOUT) =>
          /\ ev.ret = "notfound"
          /\ ev.sid \notin DOMAIN sessions
    /\ \A r \in rem : r.by \in AutomaticPaths => r.idle >= SESSION_TIMEOUT

(* get finds a session whose idle time is exactly the timeout. *)
C6_Witness ==
    ev.op = "get" /\ ev.stored /\ ev.idle = SESSION_TIMEOUT /\ ev.ret = "found"

----------------------------------------------------------------------------
(* Properties of the engine, checked under SpecEngine *)

Processed == pc = "processed" /\ results.ok
Applied == pc = "applied"

CommutativeOperations == {"SUM", "AVG", "MIN", "MAX"}

ParsesAsNumber(v) == ~IsNullish(v) /\ ~ParseFloat(StringOf(v)).nan

Range(s) == {s[i] : i \in 1..Len(s)}

(* C2 as stated: in both modes merged holds one record per duplicate pair, *)
(* so mergedCount = duplicateCount.                                        *)
C2_MergedCountIsDuplicateCount ==
    Processed =>
        /\ results.stats.mergedCount = results.stats.duplicateCount
        /\ Len(results.merged) = Len(results.duplicates)

(* C2 amended: in column-operation mode merged holds one record per        *)
(* duplicate pair; in merge-all mode it holds one record per record of     *)
(* file1 and one per unpaired record of file2.                             *)
C2_MergedCountByMode ==
    Processed =>
        /\ results.stats.mergedCount = Len(results.merged)
        /\ IF HasMergeAll(mergeOptions)
           THEN results.stats.mergedCount =
                    results.stats.totalFile1 + results.stats.uniqueFile2Count
           ELSE results.stats.mergedCount = results.stats.duplicateCount

(* Merge-all with a duplicate pair whose merged count is not the pair count. *)
C2_Witness ==
    /\ Processed
    /\ HasMergeAll(mergeOptions)
    /\ results.stats.duplicateCount >= 1
    /\ results.stats.mergedCount # results.stats.duplicateCount

(* C3: every record of file1 and of file2 is classified exactly once, as   *)
(* paired or as unique, so the counts add up to the files' sizes.          *)
C3_EveryRecordClassifiedOnce ==
    Processed =>
        LET d == matched.duplicates
            p1 == {d[k].file1Record : k \in 1..Len(d)}
            p2 == {d[k].file2Record : k \in 1..Len(d)}
        IN /\ Len(results.duplicates) + Len(results.uniqueInFile1) = Len(file1.data)
           /\ Len(results.duplicates) + Len(results.uniqueInFile2) = Len(file2.data)
           /\ p1 \cup Range(matched.uniqueInFile1) = 1..Len(file1.data)
           /\ p2 \cup Range(matched.uniqueInFile2) = 1..Len(file2.data)
           /\ p1 \cap Range(matched.uniqueInFile1) = {}
           /\ p2 \cap Range(matched.uniqueInFile2) = {}

(* A result with a pair, a record unique to file1 and one unique to file2. *)
C3_Witness ==
    /\ Processed
    /\ Len(results.duplicates) >= 1
    /\ Len(results.uniqueInFile1) >= 1
    /\ Len(results.uniqueInFile2) >= 1

KeyOf1(i) == GetColumnValue(file1.data[i], columnMapping.file1Column)
KeyOf2(i) == GetColumnValue(file2.data[i], columnMapping.file2Column)

(* Two records of file1 and one of file2, all with matching non-null keys. *)
TwoAgainstOne ==
    /\ Len(file1.data) = 2
    /\ Len(file2.data) = 1
    /\ ~IsNullish(KeyOf1(1))
    /\ IsValueMatch(KeyOf1(1), KeyOf2(1))
    /\ IsValueMatch(KeyOf1(2), KeyOf2(1))

(* C10: no record of file1 and no record of file2 is in two duplicate      *)
(* pairs; two records of file1 against one matching record of file2 give   *)
(* one pair and one record unique to file1.                                *)
C10_MatchingIsOneToOne ==
    Processed =>
        LET d == matched.duplicates
        IN /\ \A p, q \in 1..Len(d) :
                 p # q => /\ d[p].file1Record # d[q].file1Record
                          /\ d[p].file2Record # d[q].file2Record
           /\ TwoAgainstOne =>
                 /\ results.stats.duplicateCount = 1
                 /\ results.stats.uniqueFile1Count = 1
                 /\ results.stats.uniqueFile2Count = 0

C10_Witness ==
    Processed /\ TwoAgainstOne /\ results.stats.uniqueFile1Count = 1

(* C7 as stated: TAKE_NEW with a null second operand gives the first,      *)
(* TAKE_OLD with a null first operand gives the second.                    *)
C7_TakeFallsBackToNonNull ==
    Applied =>
        /\ (opIn.operation = "TAKE_NEW" /\ ~IsNullish(opIn.value1)
                /\ IsNullish(opIn.value2)) => opOut = opIn.value1
        /\ (opIn.operation = "TAKE_OLD" /\ IsNullish(opIn.value1)
                /\ ~IsNullish(opIn.value2)) => opOut = opIn.value2

(* C7 amended: TAKE_NEW gives the second operand and TAKE_OLD the first,   *)
(* null or not, so TAKE_NEW of (a, null) and TAKE_OLD of (null, b) are the *)
(* null operand.                                                           *)
C7_TakeNeverFallsBack ==
    Applied =>
        /\ opIn.operation = "TAKE_NEW" => opOut = opIn.value2
        /\ opIn.operation = "TAKE_OLD" => opOut = opIn.value1

(* applyMergeOperation(5, null, TAKE_NEW) has returned null. *)
C7_Witness ==
    /\ Applied
    /\ opIn.operation = "TAKE_NEW"
    /\ opIn.value1 = Num(500)
    /\ opIn.value2 = Null
    /\ opOut = Null

(* C8: for every operator, a null first operand gives the second operand   *)
(* (the first for TAKE_OLD); otherwise a null second operand gives the     *)
(* first operand (the second for TAKE_NEW).                                *)
C8_NullHandlingBeforeDispatch ==
    Applied =>
        /\ IsNullish(opIn.value1) =>
              opOut = (IF opIn.operation = "TAKE_OLD" THEN opIn.value1
                       ELSE opIn.value2)
        /\ (~IsNullish(opIn.value1) /\ IsNullish(opIn.value2)) =>
              opOut = (IF opIn.operation = "TAKE_NEW" THEN opIn.value2
                       ELSE opIn.value1)

(* CONCATENATE of a string and null has returned the string. *)
C8_Witness ==
    /\ Applied
    /\ opIn.operation = "CONCATENATE"
    /\ opIn.value1 = Str(<<"a", "b", "c">>)
    /\ opIn.value2 = Null
    /\ opOut = opIn.value1

(* C9 as stated: SUM, AVG, MIN and MAX give the same result with the       *)
(* operands swapped, whatever the operands: numbers, numeric strings,      *)
(* non-numeric strings and null (two null operands, where null and absent  *)
(* could be told apart, are left aside).                                   *)
C9_CommutativeForAllOperands ==
    (Applied /\ opIn.operation \in CommutativeOperations
        /\ ~(IsNullish(opIn.value1) /\ IsNullish(opIn.value2))) =>
        opOut = ApplyMergeOperation(opIn.value2, opIn.value1, opIn.operation)

(* C9 amended: they do when both operands parse as numbers or exactly one  *)
(* is null or absent; when both are non-null and one does not parse, the   *)
(* result is the first operand.                                            *)
C9_CommutativeOnNumbers ==
    (Applied /\ opIn.operation \in CommutativeOperations) =>
        /\ ((ParsesAsNumber(opIn.value1) /\ ParsesAsNumber(opIn.value2))
              \/ (IsNullish(opIn.value1) # IsNullish(opIn.value2))) =>
              opOut = ApplyMergeOperation(opIn.value2, opIn.value1, opIn.operation)
        /\ (~IsNullish(opIn.value1) /\ ~IsNullish(opIn.value2)
              /\ ~(ParsesAsNumber(opIn.value1) /\ ParsesAsNumber(opIn.value2))) =>
              opOut = opIn.value1

(* AVG of the string " 1.5" and the number 5 has returned 3.25. *)
C9_Witness ==
    /\ Applied
    /\ opIn.operation = "AVG"
    /\ opIn.value1 = Str(<<" ", "1", ".", "5">>)
    /\ opIn.value2 = Num(500)
    /\ opOut = Num(325)

----------------------------------------------------------------------------
(* Properties of matching and merging per duplicate pair, under SpecEngine *)

Pairs == 1..Len(matched.duplicates)
RecordA(k) == file1.data[matched.duplicates[k].file1Record]
RecordB(k) == file2.data[matched.duplicates[k].file2Record]

(* The merged record of pair k: in merge-all mode it stands where recordA  *)
(* stood in file1, otherwise it is the k-th merged record.                 *)
PairMerged(k) ==
    IF HasMergeAll(mergeOptions)
    THEN results.merged[matched.duplicates[k].file1Record]
    ELSE results.merged[k]

(* The key cells as the records hold them: undefined when the key is absent *)
RawKey1(i) == Cell(file1.data[i], columnMapping.file1Column)
RawKey2(j) == Cell(file2.data[j], columnMapping.file2Column)

Fold(v) == ToLowerCase(Trim(StringOf(v)))

KeysMatch(a, b) ==
    IF IsNullish(a) \/ IsNullish(b)
    THEN IsNullish(a) /\ IsNullish(b)
    ELSE Fold(a) = Fold(b)

(* C11: two key values match exactly when both are null or absent, or both *)
(* are non-null and equal after String, trim and lower-casing; every       *)
(* emitted pair matches under this rule, and no record left unique in      *)
(* file1 matches a record left unique in file2.                            *)
C11_KeysMatchRule ==
    Processed =>
        /\ \A i \in 1..Len(file1.data) : \A j \in 1..Len(file2.data) :
              IsValueMatch(KeyOf1(i), KeyOf2(j))
                  <=> KeysMatch(RawKey1(i), RawKey2(j))
        /\ \A k \in Pairs :
              KeysMatch(RawKey1(matched.duplicates[k].file1Record),
                        RawKey2(matched.duplicates[k].file2Record))
        /\ \A i \in Range(matched.uniqueInFile1) :
              \A j \in Range(matched.uniqueInFile2) :
                  ~KeysMatch(RawKey1(i), RawKey2(j))

(* A record of file1 without the key column is paired with a record of     *)
(* file2 whose key is null.                                                *)
C11_Witness ==
    /\ Processed
    /\ \E k \in Pairs :
          /\ columnMapping.file1Column \notin DOMAIN RecordA(k)
          /\ RawKey2(matched.duplicates[k].file2Record) = Null

(* C12: in merge-all mode every column of recordA has recordA's value in   *)
(* the merged record.                                                      *)
C12_MergeAllKeepsRecordA ==
    (Processed /\ HasMergeAll(mergeOptions)) =>
        \A k \in Pairs : \A c \in DOMAIN RecordA(k) :
            /\ c \in DOMAIN PairMerged(k)
            /\ PairMerged(k)[c] = RecordA(k)[c]

(* C13: in merge-all mode every key of recordA or recordB is in the merged *)
(* record, as itself or with the file2_ prefix.                            *)
C13_MergeAllDropsNoColumn ==
    (Processed /\ HasMergeAll(mergeOptions)) =>
        \A k \in Pairs : \A c \in DOMAIN RecordA(k) \cup DOMAIN RecordB(k) :
            \/ c \in DOMAIN PairMerged(k)
            \/ ("file2_" \o c) \in DOMAIN PairMerged(k)

(* A pair whose recordB brings a column recordA lacks and a conflicting    *)
(* value: the merged record has w and file2_v.                             *)
C13_Witness ==
    /\ Processed
    /\ HasMergeAll(mergeOptions)
    /\ \E k \in Pairs :
          /\ "w" \in DOMAIN RecordB(k)
          /\ "w" \notin DOMAIN RecordA(k)
          /\ "w" \in DOMAIN PairMerged(k)
          /\ "v" \in DOMAIN RecordA(k)
          /\ RecordA(k)["v"] # RecordB(k)["v"]
          /\ "file2_v" \in DOMAIN PairMerged(k)

(* C14: in column-operation mode every merged record has exactly the keys  *)
(* of its recordA.                                                         *)
C14_ColumnModeKeepsKeySet ==
    (Processed /\ ~HasMergeAll(mergeOptions)) =>
        \A k \in Pairs : DOMAIN PairMerged(k) = DOMAIN RecordA(k)

OperationColumns == {mergeOptions[j].column : j \in 1..Len(mergeOptions)}

(* C15: in column-operation mode every column of recordA that no operation *)
(* names has recordA's value in the merged record, and the call leaves the *)
(* records of file1 and file2 as they were.                                *)
C15_UnnamedColumnsAndInputsKept ==
    /\ [](  (Processed /\ ~HasMergeAll(mergeOptions)) =>
              \A k \in Pairs : \A c \in DOMAIN RecordA(k) \ OperationColumns :
                  /\ c \in DOMAIN PairMerged(k)
                  /\ PairMerged(k)[c] = RecordA(k)[c])
    /\ [][(pc = "process" /\ ~HasMergeAll(mergeOptions)) =>
              (file1' = file1 /\ file2' = file2)]_vars

(* SUM on v has changed v in the merged record of a pair and kept k. *)
C15_Witness ==
    /\ Processed
    /\ ~HasMergeAll(mergeOptions)
    /\ OperationColumns = {"v"}
    /\ \E k \in Pairs :
          /\ "k" \in DOMAIN RecordA(k)
          /\ PairMerged(k)["k"] = RecordA(k)["k"]
          /\ PairMerged(k)["v"] # RecordA(k)["v"]

(* C16: a numeric operator on two non-null operands of which one does not  *)
(* parse as a number returns the first operand.                            *)
C16_NonNumericKeepsFirstOperand ==
    (Applied /\ opIn.operation \in NumericOperations
        /\ ~IsNullish(opIn.value1) /\ ~IsNullish(opIn.value2)
        /\ (~ParsesAsNumber(opIn.value1) \/ ~ParsesAsNumber(opIn.value2))) =>
        opOut = opIn.value1

(* applyMergeOperation("5", "abc", SUM) has returned "5". *)
C16_Witness ==
    /\ Applied
    /\ opIn.operation = "SUM"
    /\ opIn.value1 = Str(<<"5">>)
    /\ opIn.value2 = Str(<<"a", "b", "c">>)
    /\ opOut = Str(<<"5">>)

----------------------------------------------------------------------------
(* Properties of the result validator, under SpecEngine *)

Validated == pc = "validated"

(* C17: validateResults never throws; it reports every property that is    *)
(* not an array and, when stats is there, every count that differs from    *)
(* its array's length and both totals that do not add up; valid is true    *)
(* exactly when errors is empty.                                           *)
C17_ValidateReportsAndNeverThrows ==
    (Validated /\ opIn.t = "object") =>
        /\ ~opOut.thrown
        /\ opOut.valid <=> (opOut.errors = <<>>)
        /\ ~IsArray(opIn.duplicates) =>
              InSeq("Duplicates data is invalid", opOut.errors)
        /\ ~IsArray(opIn.uniqueInFile1) =>
              InSeq("Unique File 1 data is invalid", opOut.errors)
        /\ ~IsArray(opIn.uniqueInFile2) =>
              InSeq("Unique File 2 data is invalid", opOut.errors)
        /\ ~IsArray(opIn.merged) =>
              InSeq("Merged data is invalid", opOut.errors)
        /\ opIn.stats.t = "object" =>
              /\ (IsArray(opIn.duplicates)
                    /\ opIn.stats.duplicateCount # opIn.duplicates.len) =>
                    InSeq("Duplicate count mismatch", opOut.errors)
              /\ (IsArray(opIn.merged)
                    /\ opIn.stats.mergedCount # opIn.merged.len) =>
                    InSeq("Merged count mismatch", opOut.errors)
              /\ (opIn.stats.duplicateCount + opIn.stats.uniqueFile1Count
                      # opIn.stats.totalFile1) =>
                    InSeq("File 1 total count mismatch", opOut.errors)
              /\ (opIn.stats.duplicateCount + opIn.stats.uniqueFile2Count
                      # opIn.stats.totalFile2) =>
                    InSeq("File 2 total count mismatch", opOut.errors)

----------------------------------------------------------------------------
(* Properties of delete, checked under Spec *)

(* C18: a delete of a stored session removes it and returns true; a delete *)
(* of an id that is not stored returns false and changes nothing in the    *)
(* store; either way every other session, its timers and its tracked       *)
(* handle are as before, and a delete that follows a delete of the same id *)
(* returns false.                                                          *)
C18_DeleteRemovesOnce ==
    [][ev'.op = "delete" =>
          LET sid == ev'.sid
          IN /\ sid \in DOMAIN sessions =>
                   /\ ev'.ret = "true"
                   /\ sid \notin DOMAIN sessions'
             /\ sid \notin DOMAIN sessions =>
                   /\ ev'.ret = "false"
                   /\ sessions' = sessions
                   /\ timers' = timers
                   /\ cleanupTimeouts' = cleanupTimeouts
             /\ \A o \in DOMAIN sessions \ {sid} :
                   /\ o \in DOMAIN sessions'
                   /\ sessions'[o] = sessions[o]
                   /\ {h \in timers' : h.sid = o} = {h \in timers : h.sid = o}
                   /\ (o \in DOMAIN cleanupTimeouts) = (o \in DOMAIN cleanupTimeouts')
             /\ (ev.op = "delete" /\ ev.sid = sid) => ev'.ret = "false"]_vars

(* A delete has returned false for an id that was handed out before, while *)
(* the other session is in the store.                                      *)
C18_Witness ==
    /\ ev.op = "delete"
    /\ ev.ret = "false"
    /\ ev.sid < nextId
    /\ \E o \in DOMAIN sessions : o # ev.sid

----------------------------------------------------------------------------
(* Properties of the request handlers, checked under SpecRoutes *)

SessionRequests == {"upload", "process", "download", "file-data", "status"}

(* C19: a request that fails because the store no longer has its session   *)
(* is answered with the session error, status 404, never with an input or  *)
(* an internal error.                                                      *)
C19_SessionFailureIsSessionError ==
    (resp.kind \in SessionRequests /\ resp.gone) =>
        /\ resp.status = 404
        /\ resp.cause = "session"

(* C20: once a download has succeeded its session is out of the store for  *)
(* good and every later status, file-data, process or download request on  *)
(* that id is answered not-found; a download that fails for want of        *)
(* results or of data, or on an export error, does not remove the session. *)
(* (A download answers "ok" or "export" for such an id only when it read   *)
(* the session before the other download succeeded and resumes after it.)  *)
C20_DownloadDeletesSession ==
    /\ \A sid \in downloaded : sid \notin DOMAIN sessions
    /\ (resp.kind \in {"status", "file-data", "process", "download"}
          /\ resp.sid \in downloaded
          /\ ~(resp.kind = "download" /\ resp.cause \in {"ok", "export"})) =>
          /\ resp.status = 404
          /\ resp.cause = "session"
    /\ (resp.kind = "download" /\ resp.cause \in {"noresults", "nodata"}) =>
          resp.sid \in DOMAIN sessions
    /\ (resp.kind = "download" /\ resp.cause = "export" /\ resp.stored) =>
          resp.sid \in DOMAIN sessions

(* A process request on a session whose download has succeeded is answered *)
(* 404.                                                                    *)
C20_Witness ==
    /\ resp.kind = "process"
    /\ resp.sid \in downloaded
    /\ resp.stored = FALSE
    /\ resp.status = 404

----------------------------------------------------------------------------
(* The lifecycle of a session, checked under Spec *)

(* A stored session whose idle time has exceeded the timeout *)
IsExpired(sid) ==
    /\ sid \in DOMAIN sessions
    /\ IdleTime(sessions[sid], now) > SESSION_TIMEOUT

(* An id createSession has handed out that is no longer in the store *)
IsDeleted(sid) == sid < nextId /\ sid \notin DOMAIN sessions

(* C21: the lifecycle is one-way: a stored session whose idle time has      *)
(* exceeded the timeout is after any step still expired or out of the      *)
(* store, never active again; an id that has been deleted never is in the  *)
(* store again, and every get, update or delete on it reports not-found or *)
(* false.                                                                  *)
C21_LifecycleIsOneWay ==
    [][\A sid \in SessionIds :
          /\ IsExpired(sid) =>
                \/ sid \notin DOMAIN sessions'
                \/ IdleTime(sessions'[sid], now') > SESSION_TIMEOUT
          /\ IsDeleted(sid) =>
                /\ sid \notin DOMAIN sessions'
                /\ (ev'.op \in {"get", "update", "delete"} /\ ev'.sid = sid) =>
                      ev'.ret \in {"notfound", "false"}]_vars

----------------------------------------------------------------------------
(* Properties of the process step, checked under SpecRoutes *)

(* The result, the column mapping and the merge operations a session       *)
(* holds, each <<>> when the session has no such key                       *)
StoredProcessing(session) ==
    [key \in {"results", "columnMapping", "mergeOptions"} |->
        IF key \in DOMAIN session THEN session[key] ELSE <<>>]

(* C22: a process request stores a result, with its column mapping and its *)
(* merge operations, only when validateResults has returned valid for it:  *)
(* a session's stored result is the one computed for its stored mapping    *)
(* and operations; a step that changes what a session holds of the three   *)
(* is a process request answered 200; and a process request answered with  *)
(* an error leaves the three as they were.                                 *)
C22_ResultStoredOnlyWhenValid ==
    /\ [](\A sid \in DOMAIN sessions :
            "results" \in DOMAIN sessions[sid] =>
               /\ "columnMapping" \in DOMAIN sessions[sid]
               /\ "mergeOptions" \in DOMAIN sessions[sid]
               /\ sessions[sid].columnMapping
                     = sessions[sid].results.body.columnMapping
               /\ sessions[sid].mergeOptions
                     = sessions[sid].results.body.mergeOptions)
    /\ [][\A sid \in DOMAIN sessions \cap DOMAIN sessions' :
            /\ StoredProcessing(sessions'[sid]) # StoredProcessing(sessions[sid]) =>
                  /\ resp'.kind = "process"
                  /\ resp'.sid = sid
                  /\ resp'.status = 200
            /\ (resp'.kind = "process" /\ resp'.status # 200) =>
                  StoredProcessing(sessions'[sid]) = StoredProcessing(sessions[sid])
         ]_vars

(* A process request whose result validateResults rejected has been        *)
(* answered 500 while the session holds the result, the mapping and the    *)
(* operations of an earlier request.                                       *)
C22_Witness ==
    /\ resp.kind = "process"
    /\ resp.status = 500
    /\ resp.cause = "validation"
    /\ resp.sid \in DOMAIN sessions
    /\ "results" \in DOMAIN sessions[resp.sid]

----------------------------------------------------------------------------
(* Properties of concurrent uploads, checked under SpecUploads *)

(* C23: an upload that completes successfully attaches its dataset under   *)
(* its file key and leaves the dataset under the other key as it was; so   *)
(* when it was suspended while an upload of the other key of the same      *)
(* session completed, the session holds both datasets afterwards; and a    *)
(* file-data request that finds the session reads a dataset exactly when   *)
(* an upload has attached one under that key.                              *)
C23_ConcurrentUploadsKeepBoth ==
    /\ []((resp.kind = "upload" /\ resp.status = 200) =>
            /\ resp.sid \in DOMAIN sessions
            /\ resp.met \cup {resp.fileKey} \subseteq DOMAIN sessions[resp.sid].files
            /\ sessions[resp.sid].files[resp.fileKey] = FileDataOf(resp.rowCount))
    /\ [][(resp'.kind = "upload" /\ resp'.status = 200) =>
            \A k \in FileKeys \ {resp'.fileKey} :
               /\ (k \in DOMAIN sessions[resp'.sid].files)
                     = (k \in DOMAIN sessions'[resp'.sid].files)
               /\ k \in DOMAIN sessions[resp'.sid].files =>
                     sessions'[resp'.sid].files[k] = sessions[resp'.sid].files[k]
         ]_vars
    /\ []((resp.kind = "file-data" /\ resp.sid \in DOMAIN sessions) =>
            \A k \in DOMAIN sessions[resp.sid].files :
                sessions[resp.sid].files[k] \in {FileDataOf(n) : n \in SampleRowCounts})

(* The upload of file2 has completed successfully after the upload of      *)
(* file1 of the same session completed while it was suspended, and the     *)
(* session holds the two datasets, of different sizes.                     *)
C23_Witness ==
    /\ resp.kind = "upload"
    /\ resp.status = 200
    /\ resp.fileKey = "file2"
    /\ resp.met = {"file1"}
    /\ resp.sid \in DOMAIN sessions
    /\ DOMAIN sessions[resp.sid].files = FileKeys
    /\ sessions[resp.sid].files["file1"] # sessions[resp.sid].files["file2"]

----------------------------------------------------------------------------
(* Properties of the remaining time, checked under Spec *)

(* The minutes of one tick of the model clock *)
TickMinutes == TickMs \div (60 * 1000)

(* The minutes left to a session idle for idle ticks, none when the        *)
(* timeout has passed                                                      *)
MinutesLeft(idle) ==
    IF idle >= SESSION_TIMEOUT THEN 0 ELSE (SESSION_TIMEOUT - idle) * TickMinutes

(* C27: getRemainingTime on a stored session (whose lastActivity is not    *)
(* ahead of the clock) returns the timeout minus the idle time the session *)
(* had when the call was made, in whole minutes, and                       *)
(* needsExpirationWarning returns true exactly when more than 0 and at     *)
(* most 5 minutes were left to it.                                         *)
C27_RemainingTimeCountsIdleTime ==
    /\ (ev.op = "remaining" /\ ev.stored /\ ev.idle >= 0) =>
          ev.minutes = MinutesLeft(ev.idle)
    /\ (ev.op = "warning" /\ ev.stored /\ ev.idle >= 0) =>
          ev.warning = (MinutesLeft(ev.idle) > 0 /\ MinutesLeft(ev.idle) <= 5)

----------------------------------------------------------------------------
(* Properties of the stored result, checked under SpecRoutes *)

(* C30: a session that holds a result holds both datasets, a column        *)
(* mapping and merge operations, and the totals of the result's stats are  *)
(* the record counts of the datasets the session holds now.                *)
C30_ResultMatchesAttachedDatasets ==
    \A sid \in DOMAIN sessions :
        "results" \in DOMAIN sessions[sid] =>
            /\ DOMAIN sessions[sid].files = FileKeys
            /\ "columnMapping" \in DOMAIN sessions[sid]
            /\ "mergeOptions" \in DOMAIN sessions[sid]
            /\ sessions[sid].results.stats.totalFile1
                  = sessions[sid].files["file1"].rowCount
            /\ sessions[sid].results.stats.totalFile2
                  = sessions[sid].files["file2"].rowCount

----------------------------------------------------------------------------
(* The eventual removal of idle sessions, checked under SpecLive *)

(* The timers and the sweep eventually run and the clock goes on. *)
Fairness ==
    /\ WF_vars(Tick /\ UNCHANGED <<engineVars, routeVars>>)
    /\ WF_vars(CleanupExpiredSessions /\ UNCHANGED <<engineVars, routeVars>>)
    /\ WF_vars(\E h \in timers :
                  TimerFire(h) /\ UNCHANGED <<engineVars, routeVars>>)

(* The store with at most MaxLiveSessions sessions created *)
NextLive == Next /\ nextId' <= MaxLiveSessions + 1

SpecLive == Init /\ [][NextLive]_vars /\ Fairness

(* The last activity after which the model's clock still reaches the time  *)
(* at which the sweep finds the session expired                            *)
LastObservable == MaxTime - SESSION_TIMEOUT - 1

(* C26: a stored session is eventually out of the store or has had its     *)
(* lastActivity moved by a get or an update.                               *)
C26_IdleSessionEventuallyRemoved ==
    \A sid \in SessionIds : \A la \in 0..LastObservable :
        (sid \in DOMAIN sessions /\ sessions[sid].lastActivity = la)
            ~> (sid \notin DOMAIN sessions \/ sessions[sid].lastActivity # la)

(* The sweep or a timer has removed a session that had been idle for the   *)
(* timeout or longer, and the store is empty.                              *)
C26_Witness ==
    /\ \E r \in rem : r.by \in {"timer", "sweep"} /\ r.idle >= SESSION_TIMEOUT
    /\ sessions = <<>>

----------------------------------------------------------------------------
(* The order of the scan, checked under SpecEngine *)

Increasing(s) == \A p, q \in 1..Len(s) : p < q => s[p] < s[q]

(* The records of file2 the pairs before pair k have consumed *)
ConsumedBefore(k) == {matched.duplicates[q].file2Record : q \in 1..(k - 1)}

(* The records of file2 consumed by pairs of records of file1 before i *)
ConsumedBeforeRecord(i) ==
    {matched.duplicates[q].file2Record :
        q \in {q \in Pairs : matched.duplicates[q].file1Record < i}}

(* C24: the result is that of the sequential first-match scan: the pairs   *)
(* and the records unique to file1 are in file1's order, each pair takes   *)
(* the earliest record of file2, in file2's order, that matches and that   *)
(* no earlier pair has consumed, a record of file1 is left unique only     *)
(* when every matching record of file2 was consumed before its turn, and   *)
(* the records unique to file2 are the unconsumed ones in file2's order.   *)
C24_SequentialFirstMatch ==
    Processed =>
        LET d == matched.duplicates
        IN /\ Increasing([k \in Pairs |-> d[k].file1Record])
           /\ Increasing(matched.uniqueInFile1)
           /\ Increasing(matched.uniqueInFile2)
           /\ \A k \in Pairs :
                 /\ KeysMatch(RawKey1(d[k].file1Record), RawKey2(d[k].file2Record))
                 /\ d[k].file2Record \notin ConsumedBefore(k)
                 /\ \A j \in 1..(d[k].file2Record - 1) :
                       KeysMatch(RawKey1(d[k].file1Record), RawKey2(j))
                           => j \in ConsumedBefore(k)
           /\ \A i \in Range(matched.uniqueInFile1) :
                 \A j \in 1..Len(file2.data) :
                     KeysMatch(RawKey1(i), RawKey2(j))
                         => j \in ConsumedBeforeRecord(i)
           /\ Range(matched.uniqueInFile2)
                 = (1..Len(file2.data)) \ ConsumedBefore(Len(d) + 1)
           /\ \A k \in Pairs : results.duplicates[k] = file1.data[d[k].file1Record]
           /\ \A k \in 1..Len(matched.uniqueInFile1) :
                 results.uniqueInFile1[k] = file1.data[matched.uniqueInFile1[k]]
           /\ \A k \in 1..Len(matched.uniqueInFile2) :
                 results.uniqueInFile2[k] = file2.data[matched.uniqueInFile2[k]]

(* The second record of file1 is paired with the second record of file2    *)
(* because the first, which matches it too, was consumed by the first      *)
(* pair.                                                                   *)
C24_Witness ==
    /\ Processed
    /\ Len(matched.duplicates) = 2
    /\ matched.duplicates[2].file2Record = 2
    /\ KeysMatch(RawKey1(matched.duplicates[2].file1Record), RawKey2(1))

----------------------------------------------------------------------------
(* The scan against an index by normalized key, checked under SpecEngine *)

(* The normalized key of a key cell: one value for null and absent, the    *)
(* trimmed lower-case string otherwise                                     *)
NormalKey(v) == IF IsNullish(v) THEN <<"null">> ELSE <<"value", Fold(v)>>

NormalKey1(i) == NormalKey(RawKey1(i))
NormalKey2(j) == NormalKey(RawKey2(j))

(* The records of file1 and of file2 with normalized key key *)
WithKey1(key) == {i \in 1..Len(file1.data) : NormalKey1(i) = key}
WithKey2(key) == {j \in 1..Len(file2.data) : NormalKey2(j) = key}

(* The place of a record among the records of its file with its key *)
Rank1(i) == Cardinality({x \in WithKey1(NormalKey1(i)) : x <= i})
Rank2(j) == Cardinality({x \in WithKey2(NormalKey2(j)) : x <= j})

(* Matching through an index of file2 by normalized key: the n-th record   *)
(* of file1 with a key takes the n-th record of file2 with that key.       *)
IndexedPairs ==
    {<<i, j>> \in (1..Len(file1.data)) \X (1..Len(file2.data)) :
        NormalKey1(i) = NormalKey2(j) /\ Rank1(i) = Rank2(j)}

ScanPairs ==
    {<<matched.duplicates[k].file1Record, matched.duplicates[k].file2Record>> :
        k \in Pairs}

(* C25: the scan pairs the records that matching through an index of      *)
(* file2 by normalized key pairs; for every normalized key the number of   *)
(* pairs with that key is the smaller of the numbers of records of file1   *)
(* and of file2 with it; and no record left unique in file1 has the key of *)
(* a record left unique in file2.                                          *)
C25_ScanEqualsIndexedMatch ==
    Processed =>
        /\ ScanPairs = IndexedPairs
        /\ \A key \in {NormalKey1(i) : i \in 1..Len(file1.data)}
                        \cup {NormalKey2(j) : j \in 1..Len(file2.data)} :
              Cardinality({p \in ScanPairs : NormalKey1(p[1]) = key})
                  = Min2(Cardinality(WithKey1(key)), Cardinality(WithKey2(key)))
        /\ \A i \in Range(matched.uniqueInFile1) :
              \A j \in Range(matched.uniqueInFile2) :
                  NormalKey1(i) # NormalKey2(j)

(* One record of file1 against two records of file2 with its key, written  *)
(* differently: one pair, and the second record of file2 is left unique.   *)
C25_Witness ==
    /\ Processed
    /\ Len(file1.data) = 1
    /\ Len(file2.data) = 2
    /\ NormalKey2(1) = NormalKey1(1)
    /\ NormalKey2(2) = NormalKey1(1)
    /\ RawKey2(1) # RawKey1(1)
    /\ ScanPairs = {<<1, 1>>}
    /\ matched.uniqueInFile2 = <<2>>

----------------------------------------------------------------------------
(* The validator on the engine's results, checked under SpecEngine *)

(* C29: validateResults applied to what processDuplicates returned, in     *)
(* merge-all mode and in column mode, returns valid with no errors and     *)
(* does not throw.                                                         *)
C29_ValidatorAcceptsEngineResults ==
    pc = "checked" => opOut = Returned(<<>>)

(* validateResults has accepted a merge-all result whose merged records    *)
(* outnumber its duplicates.                                               *)
C29_Witness ==
    /\ pc = "checked"
    /\ HasMergeAll(mergeOptions)
    /\ Len(results.merged) > Len(results.duplicates)
    /\ Len(results.duplicates) > 0
    /\ opOut.valid

----------------------------------------------------------------------------
(* The datasets the upload route attaches, checked under SpecEngine *)

Attached == pc = "uploaded" /\ opOut.attached

(* The Dataset invariant *)
HasRecords(fileData) == Len(fileData.data) >= 1
UniqueColumns(fileData) ==
    \A i, j \in 1..Len(fileData.columns) :
        fileData.columns[i] = fileData.columns[j] => i = j
NamedColumns(fileData) ==
    \A i \in 1..Len(fileData.columns) : fileData.columns[i] # <<>>
KeysWithinColumns(fileData) ==
    \A i \in 1..Len(fileData.data) :
        \A key \in DOMAIN fileData.data[i] : Includes(fileData.columns, key)
RowCountExact(fileData) == fileData.rowCount = Len(fileData.data)

(* C28: every dataset the upload step attaches has at least one record,    *)
(* unique and non-empty column names, records keyed only by its columns,   *)
(* and a rowCount equal to the number of its records.                      *)
C28_AttachedDatasetInvariant ==
    Attached =>
        /\ HasRecords(opOut.fileData)
        /\ UniqueColumns(opOut.fileData)
        /\ NamedColumns(opOut.fileData)
        /\ KeysWithinColumns(opOut.fileData)
        /\ RowCountExact(opOut.fileData)

====
